---- MODULE Spec2Model ----
(***************************************************************************)
(* Clause screening engine of ZurichInnovation:                            *)
(*   src/src/clause_splitter.py  (split_clauses and its helpers)           *)
(*   src/src/evaluate_file.py    (rule dispatch and document evaluation)   *)
(*                                                                         *)
(* A text is a sequence of characters, each character a one-character      *)
(* string.  The regular expressions of the source are written out as       *)
(* scanners over such sequences.                                           *)
(***************************************************************************)
EXTENDS Integers, Sequences, FiniteSets, TLC

\* ------------------------------------------------------------------ bounds
\* Largest number of segments (separator + sentence) of a sized document.
MaxSegs == 3
\* Largest number of tokens of a marker document.
MaxToks == 4

\* ------------------------------------------------------- program constants
MAX_W == 150
MIN_W == 20

\* -------------------------------------------------------- character classes
\* Characters outside ASCII are written by name: the pilcrow U+00B6 that
\* inject_delims inserts, the section sign U+00A7 of MARK, and the umlauts.
PILCROW == "<pilcrow>"
SECTION == "<section>"

\* str.isspace() / \s of the characters the model uses
IsSpace(c) == c \in {" ", "\t", "\n", "\r"}

\* \d
IsDigit(c) == c \in {"0", "1", "2", "3", "4", "5", "6", "7", "8", "9"}

\* [.!?] of SENT_RE's look-behind
IsSentEnd(c) == c \in {".", "!", "?"}

\* re.IGNORECASE: characters compare by their lower-case form
LowerMap ==
    ("A" :> "a") @@ ("B" :> "b") @@ ("C" :> "c") @@ ("D" :> "d") @@ ("E" :> "e")
 @@ ("F" :> "f") @@ ("G" :> "g") @@ ("H" :> "h") @@ ("I" :> "i") @@ ("J" :> "j")
 @@ ("K" :> "k") @@ ("L" :> "l") @@ ("M" :> "m") @@ ("N" :> "n") @@ ("O" :> "o")
 @@ ("P" :> "p") @@ ("Q" :> "q") @@ ("R" :> "r") @@ ("S" :> "s") @@ ("T" :> "t")
 @@ ("U" :> "u") @@ ("V" :> "v") @@ ("W" :> "w") @@ ("X" :> "x") @@ ("Y" :> "y")
 @@ ("Z" :> "z") @@ ("<A-umlaut>" :> "<a-umlaut>") @@ ("<O-umlaut>" :> "<o-umlaut>") @@ ("<U-umlaut>" :> "<u-umlaut>")

Lower(c) == IF c \in DOMAIN LowerMap THEN LowerMap[c] ELSE c

\* ------------------------------------------------------------ str helpers
Min(S) == CHOOSE m \in S : \A n \in S : m <= n

Range(s) == {s[i] : i \in 1..Len(s)}

\* the members of a set of integers in increasing order
RECURSIVE Sorted(_)
Sorted(S) == IF S = {} THEN <<>> ELSE <<Min(S)>> \o Sorted(S \ {Min(S)})

\* the members of a sequence of sequences, joined in order
RECURSIVE Flatten(_)
Flatten(ss) == IF ss = <<>> THEN <<>> ELSE Head(ss) \o Flatten(Tail(ss))

\* first index >= j of t that holds no whitespace (Len(t)+1 when none)
RECURSIVE SkipSpace(_, _)
SkipSpace(t, j) ==
    IF j <= Len(t) /\ IsSpace(t[j]) THEN SkipSpace(t, j + 1) ELSE j

\* first index >= j of t that holds no digit
RECURSIVE SkipDigits(_, _)
SkipDigits(t, j) ==
    IF j <= Len(t) /\ IsDigit(t[j]) THEN SkipDigits(t, j + 1) ELSE j

\* first index >= j of t that holds no newline
RECURSIVE SkipNewlines(_, _)
SkipNewlines(t, j) ==
    IF j <= Len(t) /\ t[j] = "\n" THEN SkipNewlines(t, j + 1) ELSE j

\* last index <= j of t that holds no whitespace (0 when none)
RECURSIVE SkipSpaceBack(_, _)
SkipSpaceBack(t, j) ==
    IF j >= 1 /\ IsSpace(t[j]) THEN SkipSpaceBack(t, j - 1) ELSE j

\* str.strip()
strip(t) == SubSeq(t, SkipSpace(t, 1), SkipSpaceBack(t, Len(t)))

\* len(t.split()): a word starts at a non-space that follows a space or the start
WordCount(t) ==
    Cardinality({i \in 1..Len(t) :
                    ~IsSpace(t[i]) /\ (i = 1 \/ IsSpace(t[i - 1]))})

\* text.replace("\r\n", "\n")
ReplaceCRLF(t) ==
    LET u == [i \in 1..Len(t) |->
                IF t[i] = "\r" /\ i < Len(t) /\ t[i + 1] = "\n" THEN "" ELSE t[i]]
    IN  SelectSeq(u, LAMBDA c : c # "")

\* re.sub(r"[ \t]+", " ", t)
CollapseBlanks(t) ==
    LET blank(c) == c \in {" ", "\t"}
        u == [i \in 1..Len(t) |->
                IF blank(t[i])
                THEN (IF i > 1 /\ blank(t[i - 1]) THEN "" ELSE " ")
                ELSE t[i]]
    IN  SelectSeq(u, LAMBDA c : c # "")

\* ------------------------------------------------------------------ MARK
\* The literal phrases of MARK, in list order, lower-cased; the alternation
\* (?:shall|expires) is written as its two alternatives.
MARK ==
 << <<"w", "i", "r", " ", "v", "e", "r", "p", "f", "l", "i", "c", "h", "t", "e", "n", " ", "u", "n", "s">>,
    <<"w", "i", "r", " ", "v", "e", "r", "z", "i", "c", "h", "t", "e", "n">>,
    <<"a", "u", "f", " ", "d", "i", "e", " ", "e", "i", "n", "r", "e", "d", "e", "n">>,
    <<"d", "i", "e", "s", "e", " ", "b", "<u-umlaut>", "r", "g", "s", "c", "h", "a", "f", "t", " ", "i", "s", "t", " ", "u", "n", "b", "e", "f", "r", "i", "s", "t", "e", "t">>,
    <<"d", "i", "e", "s", "e", " ", "b", "<u-umlaut>", "r", "g", "s", "c", "h", "a", "f", "t", " ", "e", "r", "l", "i", "s", "c", "h", "t">>,
    <<"g", "e", "r", "i", "c", "h", "t", "s", "s", "t", "a", "n", "d", " ", "i", "s", "t">>,
    <<"u", "n", "t", "e", "r", "l", "i", "e", "g", "t", " ", "d", "e", "m">>,
    <<"s", "o", "l", "l", "t", "e", " ", "e", "i", "n", "e", " ", "b", "e", "s", "t", "i", "m", "m", "u", "n", "g">>,
    <<"w", "e", " ", "u", "n", "d", "e", "r", "t", "a", "k", "e", " ", "t", "o">>,
    <<"w", "e", " ", "w", "a", "i", "v", "e">>,
    <<"t", "h", "i", "s", " ", "g", "u", "a", "r", "a", "n", "t", "e", "e", " ", "s", "h", "a", "l", "l">>,
    <<"t", "h", "i", "s", " ", "g", "u", "a", "r", "a", "n", "t", "e", "e", " ", "e", "x", "p", "i", "r", "e", "s">> >>

\* r"\n\s*\d+\." at index i: the length of the match, 0 when there is none.
\* \s and \d, and \d and ".", are disjoint, so the greedy match is the only one.
NumberedHeadLen(t, i) ==
    IF t[i] # "\n" THEN 0
    ELSE LET j == SkipSpace(t, i + 1)
             k == SkipDigits(t, j)
         IN  IF k > j /\ k <= Len(t) /\ t[k] = "." THEN k - i + 1 ELSE 0

\* SECTION + r"\s*\d+" at index i
SectionLen(t, i) ==
    IF t[i] # SECTION THEN 0
    ELSE LET j == SkipSpace(t, i + 1)
             k == SkipDigits(t, j)
         IN  IF k > j THEN k - i ELSE 0

\* the first characters of the phrases: a phrase can match only at one of them
MarkHeads == {MARK[m][1] : m \in 1..Len(MARK)}

\* a literal phrase p at index i, ignoring case
PhraseAt(t, i, p) ==
    /\ i + Len(p) - 1 <= Len(t)
    /\ \A k \in 1..Len(p) : Lower(t[i + k - 1]) = p[k]

\* MARK_RE at index i: the first alternative that matches decides; 0 = no match
MARK_RE(t, i) ==
    IF NumberedHeadLen(t, i) > 0 THEN NumberedHeadLen(t, i)
    ELSE IF SectionLen(t, i) > 0 THEN SectionLen(t, i)
    ELSE IF Lower(t[i]) \notin MarkHeads THEN 0
    ELSE LET hits == {m \in 1..Len(MARK) : PhraseAt(t, i, MARK[m])}
         IN  IF hits = {} THEN 0 ELSE Len(MARK[Min(hits)])

\* the starts of the non-overlapping matches of MARK_RE, scanning left to right
RECURSIVE ScanMarks(_, _, _)
ScanMarks(t, cand, p) ==
    LET c == {i \in cand : i >= p}
    IN  IF c = {} THEN <<>>
        ELSE LET m == Min(c)
             IN  <<m>> \o ScanMarks(t, cand, m + MARK_RE(t, m))

MarkStarts(t) == ScanMarks(t, {i \in 1..Len(t) : MARK_RE(t, i) > 0}, 1)

\* MARK_RE.sub(PILCROW + r"\1", text)
RECURSIVE InjectFrom(_, _, _)
InjectFrom(t, s, k) ==
    IF k > Len(s) THEN <<>>
    ELSE <<PILCROW>> \o SubSeq(t, s[k], IF k < Len(s) THEN s[k + 1] - 1 ELSE Len(t))
                 \o InjectFrom(t, s, k + 1)

inject_delims(t) ==
    LET s == MarkStarts(t)
    IN  IF s = <<>> THEN t ELSE SubSeq(t, 1, s[1] - 1) \o InjectFrom(t, s, 1)

\* --------------------------------------------------------------- HARD_RE
\* PILCROW + r"|\n{2,}" at index i: length of the match, 0 when there is none
FirstPassDelimLen(t, i) ==
    IF t[i] = PILCROW THEN 1
    ELSE IF t[i] = "\n" /\ i < Len(t) /\ t[i + 1] = "\n"
    THEN SkipNewlines(t, i) - i
    ELSE 0

\* re.split(PILCROW + "|" + HARD_RE.pattern, t)
RECURSIVE FirstPassSplit(_)
FirstPassSplit(t) ==
    LET d == {i \in 1..Len(t) : FirstPassDelimLen(t, i) > 0}
    IN  IF d = {} THEN <<t>>
        ELSE LET m == Min(d)
             IN  <<SubSeq(t, 1, m - 1)>>
                 \o FirstPassSplit(SubSeq(t, m + FirstPassDelimLen(t, m), Len(t)))

\* [p.strip() for p in pieces if p.strip()]
StripNonEmpty(pieces) ==
    LET s == [i \in 1..Len(pieces) |-> strip(pieces[i])]
    IN  SelectSeq(s, LAMBDA p : p # <<>>)

\* --------------------------------------------------------------- SENT_RE
\* r"(?<=[.!?])\s+" at index i
SENT_RE(t, i) ==
    IF i > 1 /\ IsSentEnd(t[i - 1]) /\ IsSpace(t[i]) THEN SkipSpace(t, i) - i ELSE 0

\* SENT_RE.split(t)
RECURSIVE SentSplit(_)
SentSplit(t) ==
    LET d == {i \in 1..Len(t) : SENT_RE(t, i) > 0}
    IN  IF d = {} THEN <<t>>
        ELSE LET m == Min(d)
             IN  <<SubSeq(t, 1, m - 1)>>
                 \o SentSplit(SubSeq(t, m + SENT_RE(t, m), Len(t)))

\* sentences = [s.strip() for s in SENT_RE.split(block) if s.strip()]
Sentences(block) == StripNonEmpty(SentSplit(block))

\* -------------------------------------------------------- split_oversize
\* the comparison taken strictly: a block of exactly MAX_W words is re-packed
FitsWhole_Below(block) == WordCount(block) < MAX_W

\* if len(words) <= MAX_W: return [block]
FitsWhole(block) == WordCount(block) <= MAX_W

\* only the new sentence is measured, not the group it would join
Overflows_NewOnly(buf, s) == WordCount(s) > MAX_W

\* a group is closed as soon as it would reach MAX_W words
Overflows_AtMax(buf, s) == WordCount(buf \o <<" ">> \o s) >= MAX_W

\* if len((buf + " " + s).split()) > MAX_W
Overflows(buf, s) == WordCount(buf \o <<" ">> \o s) > MAX_W

\* the for loop over sentences, from sentence k on, and the final flush
RECURSIVE PackSentences(_, _, _, _)
PackSentences(sentences, k, buf, out) ==
    IF k > Len(sentences)
    THEN (IF buf # <<>> THEN Append(out, strip(buf)) ELSE out)
    ELSE LET s == sentences[k]
         IN  IF Overflows(buf, s)
             THEN PackSentences(sentences, k + 1, s,
                                IF buf # <<>> THEN Append(out, strip(buf)) ELSE out)
             ELSE PackSentences(sentences, k + 1,
                                IF buf # <<>> THEN strip(buf \o <<" ">> \o s) ELSE s,
                                out)

split_oversize(block) ==
    IF FitsWhole(block) THEN <<block>>
    ELSE PackSentences(Sentences(block), 1, <<>>, <<>>)

\* --------------------------------------------------------- split_clauses
\* if not text.strip()
IsBlank(t) == strip(t) = <<>>

\* inject_delims(re.sub(r"[ \t]+", " ", text.replace("\r\n", "\n")).strip())
Normalized(t) == strip(CollapseBlanks(ReplaceCRLF(t)))

\* first = [p.strip() for p in re.split(...) if p.strip()]
FirstPass(n) == StripNonEmpty(FirstPassSplit(n))

\* the filter left out: every chunk is kept
KeepChunk_All(chunk) == TRUE

\* if word_count >= MIN_W
KeepChunk(chunk) == WordCount(chunk) >= MIN_W

\* the loop of lines 112-119 from piece k on
RECURSIVE KeptChunks(_, _)
KeptChunks(pieces, k) ==
    IF k > Len(pieces) THEN <<>>
    ELSE SelectSeq(split_oversize(pieces[k]), KeepChunk) \o KeptChunks(pieces, k + 1)

\* the text is returned as one clause, whatever it holds
split_clauses_Whole(t) == <<t>>

\* split_clauses(text) as one call: the clause texts, in order
split_clauses(t) ==
    IF IsBlank(t) THEN <<>>
    ELSE KeptChunks(FirstPass(inject_delims(Normalized(t))), 1)

\* ------------------------------------------------ regexes of evaluate_file
\* the starts of the non-overlapping matches of a pattern, left to right;
\* lens[i] is the length of the pattern's match at index i, 0 when none
RECURSIVE Scan(_, _, _)
Scan(lens, p, n) ==
    LET c == {i \in p..n : lens[i] > 0}
    IN  IF c = {} THEN <<>>
        ELSE <<Min(c)>> \o Scan(lens, Min(c) + lens[Min(c)], n)

\* re.findall of a pattern without groups: the matched texts
findall(t, lens) ==
    LET s == Scan(lens, 1, Len(t))
    IN  [k \in 1..Len(s) |-> SubSeq(t, s[k], s[k] + lens[s[k]] - 1)]

DigitValue ==
    ("0" :> 0) @@ ("1" :> 1) @@ ("2" :> 2) @@ ("3" :> 3) @@ ("4" :> 4)
 @@ ("5" :> 5) @@ ("6" :> 6) @@ ("7" :> 7) @@ ("8" :> 8) @@ ("9" :> 9)

\* int(n) of a run of digits
RECURSIVE int(_)
int(d) ==
    IF d = <<>> THEN 0
    ELSE 10 * int(SubSeq(d, 1, Len(d) - 1)) + DigitValue[d[Len(d)]]

\* r"\d+" at index i
DigitsAt(t, i) == IF IsDigit(t[i]) THEN SkipDigits(t, i) - i ELSE 0

\* nums = [int(n) for n in re.findall(r"\d+", clause_text)]
Nums(t) ==
    LET m == findall(t, [i \in 1..Len(t) |-> DigitsAt(t, i)])
    IN  [k \in 1..Len(m) |-> int(m[k])]

\* r"(\d+)\s*%" at index i: digits, optional whitespace, a percent sign
PercentAt(t, i) ==
    IF ~IsDigit(t[i]) THEN 0
    ELSE LET j == SkipSpace(t, SkipDigits(t, i))
         IN  IF j <= Len(t) /\ t[j] = "%" THEN j + 1 - i ELSE 0

\* perc_nums = [int(n) for n in re.findall(r"(\d+)\s*%", clause_text)]
PercNums(t) ==
    LET lens == [i \in 1..Len(t) |-> PercentAt(t, i)]
        s == Scan(lens, 1, Len(t))
    IN  [k \in 1..Len(s) |-> int(SubSeq(t, s[k], SkipDigits(t, s[k]) - 1))]

\* \w
Letters == DOMAIN LowerMap \cup {LowerMap[c] : c \in DOMAIN LowerMap}

IsWord(c) == IsDigit(c) \/ c = "_" \/ c \in Letters

\* \b in front of index i (i = Len(t) + 1 is the end of the text)
WordBoundary(t, i) ==
    (i > 1 /\ IsWord(t[i - 1])) # (i <= Len(t) /\ IsWord(t[i]))

\* (?:[,.]\d{3})*(?:\.\d+)?\b from index p on: the index after the match,
\* 0 when there is none; the longer alternatives are tried first
RECURSIVE AmountTail(_, _)
AmountTail(t, p) ==
    LET group == IF /\ p + 3 <= Len(t)
                    /\ t[p] \in {",", "."}
                    /\ \A j \in (p + 1)..(p + 3) : IsDigit(t[j])
                 THEN AmountTail(t, p + 4) ELSE 0
        k == IF p < Len(t) /\ t[p] = "." /\ IsDigit(t[p + 1])
             THEN SkipDigits(t, p + 1) ELSE 0
        decimal == IF k > 0 /\ WordBoundary(t, k) THEN k ELSE 0
        plain == IF WordBoundary(t, p) THEN p ELSE 0
    IN  IF group > 0 THEN group ELSE IF decimal > 0 THEN decimal ELSE plain

\* r"\b\d{1,3}(?:[,.]\d{3})*(?:\.\d+)?\b" at index i
AmountAt(t, i) ==
    LET try(d) == IF /\ i + d - 1 <= Len(t)
                     /\ \A j \in i..(i + d - 1) : IsDigit(t[j])
                  THEN AmountTail(t, i + d) ELSE 0
    IN  IF ~IsDigit(t[i]) \/ ~WordBoundary(t, i) THEN 0
        ELSE IF try(3) > 0 THEN try(3) - i
        ELSE IF try(2) > 0 THEN try(2) - i
        ELSE IF try(1) > 0 THEN try(1) - i
        ELSE 0

UpperAscii ==
    {"A", "B", "C", "D", "E", "F", "G", "H", "I", "J", "K", "L", "M",
     "N", "O", "P", "Q", "R", "S", "T", "U", "V", "W", "X", "Y", "Z"}

\* the currency signs of the pattern, written by name
CurrencySigns == {"$", "<euro>", "<pound>", "<yen>"}

\* r"(\b[A-Z]{3}\b|[\$...])" at index i
CurrencyAt(t, i) ==
    IF /\ i + 2 <= Len(t)
       /\ \A j \in i..(i + 2) : t[j] \in UpperAscii
       /\ WordBoundary(t, i)
       /\ WordBoundary(t, i + 3)
    THEN 3
    ELSE IF t[i] \in CurrencySigns THEN 1 ELSE 0

\* r"\b(PR\+\d{9})\b" at index i
ContractAt(t, i) ==
    IF /\ i + 11 <= Len(t)
       /\ t[i] = "P" /\ t[i + 1] = "R" /\ t[i + 2] = "+"
       /\ \A j \in (i + 3)..(i + 11) : IsDigit(t[j])
       /\ WordBoundary(t, i)
       /\ WordBoundary(t, i + 12)
    THEN 12 ELSE 0

\* check_cross_clause_data(clause_text)
check_cross_clause_data(t) ==
    [ amounts      |-> findall(t, [i \in 1..Len(t) |-> AmountAt(t, i)]),
      currencies   |-> findall(t, [i \in 1..Len(t) |-> CurrencyAt(t, i)]),
      contract_nos |-> findall(t, [i \in 1..Len(t) |-> ContractAt(t, i)]) ]

\* ------------------------------------------------------- rules and tools
\* A rule is a function from its keys to their values, as json.load gives a
\* dict; a key the rule file leaves out is outside the function's domain.

\* d.get(k, default)
Get(d, k, default) == IF k \in DOMAIN d THEN d[k] ELSE default

\* d.get(k): <<v>> for a value v, <<>> for None
GetOrNone(d, k) == IF k \in DOMAIN d THEN <<d[k]>> ELSE <<>>

\* What the libraries outside the repository answer on one handler call:
\*   score, pick  the best score of process.extractOne and the index of the
\*                best pattern in the list it was given
\*   errors       len(tool.check(clause_text)) of language_tool_python,
\*                -1 when building or calling the tool raises
\* The handlers take these answers as the argument o.

\* (color, evidence) returned by a handler; evidence keeps the message
\* template with the values formatted into it
Evidence(msg, nums, txt) == [msg |-> msg, nums |-> nums, txt |-> txt]

Returns(color, evidence) == [raised |-> FALSE, color |-> color, evidence |-> evidence]

\* an exception leaving the handler
Raises(error) == [raised |-> TRUE, color |-> "", evidence |-> Evidence(error, <<>>, "")]

\* a score equal to a threshold falls into the tier below
FuzzyColor_Strict(score, green_threshold, yellow_threshold) ==
    IF score > green_threshold THEN "GREEN"
    ELSE IF score > yellow_threshold THEN "YELLOW"
    ELSE "RED"

\* the green comparison is turned round
FuzzyColor_Reversed(score, green_threshold, yellow_threshold) ==
    IF green_threshold >= score THEN "GREEN"
    ELSE IF score >= yellow_threshold THEN "YELLOW"
    ELSE "RED"

\* lines 46-50: the color check_fuzzy gives a best score
FuzzyColor(score, green_threshold, yellow_threshold) ==
    IF score >= green_threshold THEN "GREEN"
    ELSE IF score >= yellow_threshold THEN "YELLOW"
    ELSE "RED"

\* check_fuzzy(clause_text, rule)
check_fuzzy(clause_text, rule, o) ==
    IF "patterns" \notin DOMAIN rule THEN Raises("KeyError: 'patterns'")
    ELSE LET all_patterns == Get(rule["patterns"], "green", <<>>)
                             \o Get(rule["patterns"], "yellow", <<>>)
                             \o Get(rule["patterns"], "red", <<>>)
         IN  IF all_patterns = <<>>
             THEN Returns("N/A", Evidence("No patterns defined for fuzzy rule.", <<>>, ""))
             ELSE IF "thresholds" \notin DOMAIN rule THEN Raises("KeyError: 'thresholds'")
             ELSE LET green_threshold == Get(rule["thresholds"], "green", 90)
                      yellow_threshold == Get(rule["thresholds"], "yellow", 75)
                      color == FuzzyColor(o.score, green_threshold, yellow_threshold)
                  IN  Returns(color, Evidence("Best match: '{match}' with score {score:.2f}",
                                              <<o.score>>, all_patterns[o.pick]))

\* the numeric_amount branch of check_numeric; falls through to the last
\* return when the rule does not ask for amount presence
numeric_amount(nums, rule, rule_type) ==
    IF "thresholds" \notin DOMAIN rule THEN Raises("KeyError: 'thresholds'")
    ELSE IF Get(rule["thresholds"], "amount_presence", 0) # 0
    THEN (IF nums # <<>>
          THEN Returns("GREEN", Evidence("Found potential amount(s): {nums}", nums, ""))
          ELSE Returns("RED", Evidence("No amount found.", <<>>, "")))
    ELSE Returns("N/A", Evidence("Numeric rule type '{rule_type}' logic not fully implemented.",
                                 <<>>, rule_type))

\* a value equal to the threshold does not count as within it
numeric_years_Strict(nums, rule) ==
    IF nums = <<>> THEN Returns("N/A", Evidence("No year value found.", <<>>, ""))
    ELSE LET max_years == Get(rule["thresholds"], "green_max_years", 6)
         IN  IF \E k \in 1..Len(nums) : nums[k] < max_years
             THEN Returns("GREEN", Evidence("Found term <= {max_years} years.", <<max_years>>, ""))
             ELSE Returns("RED", Evidence("Found term > {max_years} years: {nums[0]}",
                                          <<max_years, nums[1]>>, ""))

\* the numeric_years branch of check_numeric
numeric_years(nums, rule) ==
    IF nums = <<>> THEN Returns("N/A", Evidence("No year value found.", <<>>, ""))
    ELSE IF "thresholds" \notin DOMAIN rule THEN Raises("KeyError: 'thresholds'")
    ELSE LET max_years == Get(rule["thresholds"], "green_max_years", 6)
         IN  IF \E k \in 1..Len(nums) : nums[k] <= max_years
             THEN Returns("GREEN", Evidence("Found term <= {max_years} years.", <<max_years>>, ""))
             ELSE Returns("RED", Evidence("Found term > {max_years} years: {nums[0]}",
                                          <<max_years, nums[1]>>, ""))

\* the numeric_days branch of check_numeric; comparing a number with None
\* raises TypeError, and so does unpacking the None that extractOne
\* returns for an empty list of patterns
numeric_days(nums, rule, o) ==
    IF "thresholds" \notin DOMAIN rule THEN Raises("KeyError: 'thresholds'")
    ELSE LET min_days == GetOrNone(rule["thresholds"], "green_min_days")
         IN  IF nums # <<>> /\ min_days = <<>>
             THEN Raises("TypeError: '>=' not supported between 'int' and 'NoneType'")
             ELSE IF nums # <<>> /\ \E k \in 1..Len(nums) : nums[k] >= min_days[1]
             THEN Returns("GREEN", Evidence("Payment period of >= {min_days} days found.",
                                            min_days, ""))
             ELSE IF "patterns" \notin DOMAIN rule THEN Raises("KeyError: 'patterns'")
             ELSE IF "yellow" \in DOMAIN rule["patterns"] /\ rule["patterns"]["yellow"] = <<>>
             THEN Raises("TypeError: cannot unpack non-iterable NoneType object")
             ELSE IF "yellow" \in DOMAIN rule["patterns"] /\ o.score > 80
             THEN Returns("YELLOW", Evidence("Vague term found: '{match}'", <<>>,
                                             rule["patterns"]["yellow"][o.pick]))
             ELSE Returns("RED", Evidence("No payment period of at least {min_days} days found.",
                                          min_days, ""))

\* the numeric_percentage branch of check_numeric
numeric_percentage(clause_text, rule) ==
    LET perc_nums == PercNums(clause_text)
    IN  IF perc_nums = <<>>
        THEN Returns("N/A", Evidence("No percentage value found.", <<>>, ""))
        ELSE IF "thresholds" \notin DOMAIN rule THEN Raises("KeyError: 'thresholds'")
        ELSE LET max_perc == GetOrNone(rule["thresholds"], "green_max_percent")
             IN  IF max_perc = <<>>
                 THEN Raises("TypeError: '<=' not supported between 'int' and 'NoneType'")
                 ELSE IF \E k \in 1..Len(perc_nums) : perc_nums[k] <= max_perc[1]
                 THEN Returns("GREEN", Evidence("Found percentage <= {max_perc}%.", max_perc, ""))
                 ELSE Returns("RED", Evidence("Found percentage > {max_perc}%: {perc_nums[0]}%",
                                              max_perc \o <<perc_nums[1]>>, ""))

\* check_numeric(clause_text, rule)
check_numeric(clause_text, rule, o) ==
    LET rule_type == Get(rule, "type", "None")
        nums == Nums(clause_text)
    IN  CASE rule_type = "numeric_amount" -> numeric_amount(nums, rule, rule_type)
          [] rule_type = "numeric_years" -> numeric_years(nums, rule)
          [] rule_type = "numeric_days" -> numeric_days(nums, rule, o)
          [] rule_type = "numeric_percentage" -> numeric_percentage(clause_text, rule)
          [] OTHER -> Returns("N/A",
                              Evidence("Numeric rule type '{rule_type}' logic not fully implemented.",
                                       <<>>, rule_type))

\* a score of exactly 90 already counts as a forbidden term
check_presence_inverse_AtLeast(clause_text, rule, o) ==
    LET patterns == Get(rule["patterns"], "red", <<>>)
    IN  IF patterns = <<>>
        THEN Returns("N/A", Evidence("No red patterns defined for inverse presence rule.",
                                     <<>>, ""))
        ELSE IF o.score >= 90
        THEN Returns("RED", Evidence("Found forbidden term: '{match}'", <<>>, patterns[o.pick]))
        ELSE Returns("GREEN", Evidence("No forbidden terms found.", <<>>, ""))

\* check_presence_inverse(clause_text, rule)
check_presence_inverse(clause_text, rule, o) ==
    IF "patterns" \notin DOMAIN rule THEN Raises("KeyError: 'patterns'")
    ELSE LET patterns == Get(rule["patterns"], "red", <<>>)
         IN  IF patterns = <<>>
             THEN Returns("N/A", Evidence("No red patterns defined for inverse presence rule.",
                                          <<>>, ""))
             ELSE IF o.score > 90
             THEN Returns("RED", Evidence("Found forbidden term: '{match}'", <<>>, patterns[o.pick]))
             ELSE Returns("GREEN", Evidence("No forbidden terms found.", <<>>, ""))

\* the tool is used without try/except
check_grammar_count_Unguarded(clause_text, rule, o) ==
    IF o.errors < 0
    THEN Raises("Grammar tool failed")
    ELSE LET error_count == o.errors
             color == IF error_count = 0 THEN "GREEN"
                      ELSE IF error_count <= 5 THEN "YELLOW"
                      ELSE "RED"
         IN  Returns(color, Evidence("Found {error_count} grammar errors.", <<error_count>>, ""))

\* check_grammar_count(clause_text, rule): the try block and its except
check_grammar_count(clause_text, rule, o) ==
    IF o.errors < 0
    THEN Returns("N/A", Evidence("Grammar check failed: {e}", <<>>, ""))
    ELSE LET error_count == o.errors
             color == IF error_count = 0 THEN "GREEN"
                      ELSE IF error_count <= 5 THEN "YELLOW"
                      ELSE "RED"
         IN  Returns(color, Evidence("Found {error_count} grammar errors.", <<error_count>>, ""))

\* the placeholder lets every clause pass
check_not_implemented_Passes(clause_text, rule, o) ==
    Returns("GREEN", Evidence("Rule type '{rule_type}' not implemented.", <<>>,
                              Get(rule, "type", "unknown")))

\* check_not_implemented(clause_text, rule)
check_not_implemented(clause_text, rule, o) ==
    Returns("N/A", Evidence("Rule type '{rule_type}' not implemented.", <<>>,
                            Get(rule, "type", "unknown")))

\* the dispatch table: rule type to the name of its handler
DISPATCH ==
    [ fuzzy              |-> "check_fuzzy",
      numeric_years      |-> "check_numeric",
      numeric_days       |-> "check_numeric",
      numeric_amount     |-> "check_numeric",
      numeric_percentage |-> "check_numeric",
      presence_inverse   |-> "check_presence_inverse",
      format             |-> "check_not_implemented",
      ocr_confidence     |-> "check_not_implemented",
      grammar_count      |-> "check_grammar_count" ]

\* handler(clause_text, rule) for the handler of that name
Call(handler, clause_text, rule, o) ==
    CASE handler = "check_fuzzy" -> check_fuzzy(clause_text, rule, o)
      [] handler = "check_numeric" -> check_numeric(clause_text, rule, o)
      [] handler = "check_presence_inverse" -> check_presence_inverse(clause_text, rule, o)
      [] handler = "check_grammar_count" -> check_grammar_count(clause_text, rule, o)
      [] handler = "check_not_implemented" -> check_not_implemented(clause_text, rule, o)

\* the loop of evaluate_clause from rule k on; os[k] holds the libraries'
\* answers for rule k; an exception leaves the function without a list
RECURSIVE EvaluateFrom(_, _, _, _, _)
EvaluateFrom(clause_text, rules, os, k, clause_results) ==
    IF k > Len(rules)
    THEN [raised |-> FALSE, error |-> "", clause_results |-> clause_results]
    ELSE LET rule == rules[k]
             rule_type == GetOrNone(rule, "type")
         IN  IF rule_type = <<>> \/ rule_type[1] \notin DOMAIN DISPATCH
             THEN EvaluateFrom(clause_text, rules, os, k + 1, clause_results)
             ELSE LET h == Call(DISPATCH[rule_type[1]], clause_text, rule, os[k])
                      missing == {"id", "name"} \ DOMAIN rule
                  IN  IF h.raised
                      THEN [raised |-> TRUE, error |-> h.evidence.msg, clause_results |-> <<>>]
                      ELSE IF missing # {}
                      THEN [raised |-> TRUE, error |-> "KeyError", clause_results |-> <<>>]
                      ELSE EvaluateFrom(clause_text, rules, os, k + 1,
                               Append(clause_results,
                                      [ rule_id   |-> rule["id"],
                                        rule_name |-> rule["name"],
                                        score     |-> h.color,
                                        details   |-> h.evidence ]))

\* evaluate_clause(clause_text, rules)
evaluate_clause(clause_text, rules, os) == EvaluateFrom(clause_text, rules, os, 1, <<>>)

\* the message names only one of the values
Part_OneValue(msg, values) ==
    [ msg    |-> msg,
      values |-> IF values = {} THEN {} ELSE {CHOOSE v \in values : TRUE} ]

\* one part of the evidence string of the cross-clause check: the message
\* and the values of list(unique_...) formatted into it
Part(msg, values) == [msg |-> msg, values |-> values]

\* a set counts as inconsistent as soon as it holds any value at all
Inconsistent_Any(unique) == Cardinality(unique) >= 1

\* a set counts as inconsistent only while it holds exactly two values
Inconsistent_ExactlyTwo(unique) == Cardinality(unique) = 2

\* if len(unique_...) > 1
Inconsistent(unique) == Cardinality(unique) > 1

\* perform_final_cross_clause_check(all_clause_data)
perform_final_cross_clause_check(all_clause_data) ==
    LET n == Len(all_clause_data)
        unique_amounts == Range(Flatten([k \in 1..n |-> all_clause_data[k].amounts]))
        unique_currencies == Range(Flatten([k \in 1..n |-> all_clause_data[k].currencies]))
        unique_contract_nos == Range(Flatten([k \in 1..n |-> all_clause_data[k].contract_nos]))
        color == IF \/ Inconsistent(unique_amounts)
                    \/ Inconsistent(unique_currencies)
                    \/ Inconsistent(unique_contract_nos)
                 THEN "RED" ELSE "GREEN"
        evidence ==
            (IF Inconsistent(unique_amounts)
             THEN <<Part("Inconsistent amounts found: {list}", unique_amounts)>>
             ELSE <<Part("All values are consistent across clauses.", {})>>)
            \o (IF Inconsistent(unique_currencies)
                THEN <<Part(" Inconsistent currencies found: {list}", unique_currencies)>>
                ELSE <<>>)
            \o (IF Inconsistent(unique_contract_nos)
                THEN <<Part(" Inconsistent contract numbers found: {list}", unique_contract_nos)>>
                ELSE <<>>)
    IN  << [ rule_name |-> "Cross-Clause Consistency",
             color     |-> color,
             evidence  |-> evidence ] >>

\* ------------------------------------------------------------ documents
Concat(a, b) == a \o b

\* n one-letter words separated by single spaces
Words(n) == [i \in 1..(2 * n - 1) |-> IF i % 2 = 1 THEN "x" ELSE " "]

\* a sentence of n words
Sent(n) == Words(n) \o <<".">>

\* word counts on both sides of MIN_W, of MAX_W / 2 and of MAX_W
SentSizes == {MIN_W - 1, MIN_W, MAX_W \div 2, MAX_W \div 2 + 1, MAX_W + 1}

\* what may stand before a sentence: a line break or a hard break
SegSeps == {<<"\n">>, <<"\n", "\n">>}

Segs == {sep \o Sent(n) : sep \in SegSeps, n \in SentSizes}

\* sized documents: up to MaxSegs sentences, each after a line break or a hard break
SizedDocs == UNION {{Flatten(ss) : ss \in [1..n -> Segs]} : n \in 0..MaxSegs}

\* tokens of the marker documents: a word, a line end, a tab, a pilcrow,
\* a phrase of MARK in mixed case, a section number, a list number
Toks ==
    { <<"a", "b", " ">>,
      <<"\r", "\n">>,
      <<"\t">>,
      <<PILCROW>>,
      <<"W", "i", "r", " ", "V", "E", "R", "P", "F", "L", "I", "C", "H", "T", "E", "N", " ", "u", "n", "s", " ">>,
      <<SECTION, " ", "7", " ">>,
      <<"1", ".", " ">> }

MarkerDocs == UNION {{Flatten(ss) : ss \in [1..n -> Toks]} : n \in 0..MaxToks}

Docs == SizedDocs \cup MarkerDocs

\* ------------------------------------------ documents and rules evaluated
\* Largest number of paragraphs of an evaluated document.
MaxParas == 2
\* Largest number of rules of a rule list.
MaxRules == 2

PayText ==
    <<"P", "a", "y", "m", "e", "n", "t", " ", "w", "i", "t", "h", "i", "n", " ", "3", "0", " ", "d", "a", "y", "s", " ", "o", "f", " ", "i", "n", "v", "o", "i", "c", "e", ".">>

FeeEurText ==
    <<"F", "e", "e", " ", "2", "0", "0", ".", "0", "0", " ", "E", "U", "R", " ", "P", "R", "+", "1", "2", "3", "4", "5", "6", "7", "8", "9">>

FeeUsdText ==
    <<"F", "e", "e", " ", "2", "0", "0", ".", "0", "0", " ", "U", "S", "D">>

\* paragraphs: a payment term, the same fee in two currencies, and a
\* paragraph without any number; each is filled up to a clause of at least
\* MIN_W words
Paras ==
    { PayText \o <<" ">> \o Words(MIN_W),
      FeeEurText \o <<" ">> \o Words(MIN_W),
      FeeUsdText \o <<" ">> \o Words(MIN_W),
      Words(MIN_W) }

\* evaluated documents: up to MaxParas paragraphs, a hard break before each
EvalDocs ==
    UNION {{Flatten([k \in 1..n |-> <<"\n", "\n">> \o ps[k]]) : ps \in [1..n -> Paras]}
           : n \in 0..MaxParas}

\* {} of the rule file
EmptyDict == [k \in {} |-> 0]

\* rules: a fuzzy rule, a numeric_days rule that configures no threshold,
\* an inverse-presence rule without patterns, a grammar rule, and a rule of
\* a type without handler
RulePool ==
    { [ id |-> "R1", name |-> "Net payment", type |-> "fuzzy",
        patterns |-> [green |-> <<"net 30">>], thresholds |-> EmptyDict ],
      [ id |-> "R2", name |-> "Payment period", type |-> "numeric_days",
        patterns |-> EmptyDict, thresholds |-> EmptyDict ],
      [ id |-> "R3", name |-> "Forbidden terms", type |-> "presence_inverse",
        patterns |-> EmptyDict, thresholds |-> EmptyDict ],
      [ id |-> "R4", name |-> "Grammar", type |-> "grammar_count",
        patterns |-> EmptyDict, thresholds |-> EmptyDict ],
      [ id |-> "R5", name |-> "Meaning", type |-> "semantic",
        patterns |-> EmptyDict, thresholds |-> EmptyDict ] }

\* rule lists: up to MaxRules rules of the pool, no rule twice, in any order
RuleLists ==
    UNION {{rs \in [1..n -> RulePool] : \A a, b \in 1..n : a # b => rs[a] # rs[b]}
           : n \in 0..MaxRules}

\* scores of the fuzzy scorer on both sides of the handlers' thresholds
Scores == {80, 91}

\* issue counts the grammar tool reports when it works
GrammarCounts == {0}

\* the patterns a rule's handler hands to process.extractOne
ScorerChoices(rule) ==
    LET rule_type == Get(rule, "type", "None")
        patterns == Get(rule, "patterns", EmptyDict)
    IN  CASE rule_type = "fuzzy" -> Get(patterns, "green", <<>>)
                                    \o Get(patterns, "yellow", <<>>)
                                    \o Get(patterns, "red", <<>>)
          [] rule_type = "numeric_days" -> Get(patterns, "yellow", <<>>)
          [] rule_type = "presence_inverse" -> Get(patterns, "red", <<>>)
          [] OTHER -> <<>>

\* the answers the libraries can give for one rule; an answer the rule's
\* handler does not ask for is held fixed
OraclesFor(rule) ==
    LET n == Len(ScorerChoices(rule))
    IN  [ score  : IF n > 0 THEN Scores ELSE {0},
          pick   : IF n > 0 THEN 1..n ELSE {1},
          errors : IF Get(rule, "type", "None") = "grammar_count"
                   THEN GrammarCounts \cup {-1} ELSE {-1} ]

\* the answers for a rule list, rule by rule from rule k on
RECURSIVE OracleSeqs(_, _)
OracleSeqs(rules, k) ==
    IF k > Len(rules) THEN {<<>>}
    ELSE {<<o>> \o rest : o \in OraclesFor(rules[k]), rest \in OracleSeqs(rules, k + 1)}

\* ---------------------------------------- documents that differ in facts
Fee100Text ==
    <<"F", "e", "e", " ", "1", "0", "0", ".", "0", "0">>

Fee200Text ==
    <<"F", "e", "e", " ", "2", "0", "0", ".", "0", "0">>

Eur200Text ==
    <<"F", "e", "e", " ", "2", "0", "0", ".", "0", "0", " ", "E", "U", "R">>

Usd200Text ==
    <<"F", "e", "e", " ", "2", "0", "0", ".", "0", "0", " ", "U", "S", "D">>

Contract1Text ==
    <<"R", "e", "f", " ", "P", "R", "+", "1", "2", "3", "4", "5", "6", "7", "8", "9">>

Contract2Text ==
    <<"R", "e", "f", " ", "P", "R", "+", "9", "8", "7", "6", "5", "4", "3", "2", "1">>

\* paragraphs that state an amount, an amount with a currency, a contract
\* number, or nothing, each filled up to a clause of at least MIN_W words
CrossParas ==
    { Fee100Text \o <<" ">> \o Words(MIN_W),
      Fee200Text \o <<" ">> \o Words(MIN_W),
      Eur200Text \o <<" ">> \o Words(MIN_W),
      Usd200Text \o <<" ">> \o Words(MIN_W),
      Contract1Text \o <<" ">> \o Words(MIN_W),
      Contract2Text \o <<" ">> \o Words(MIN_W),
      Words(MIN_W) }

\* up to MaxParas such paragraphs, a hard break before each
CrossDocs ==
    UNION {{Flatten([k \in 1..n |-> <<"\n", "\n">> \o ps[k]]) : ps \in [1..n -> CrossParas]}
           : n \in 0..MaxParas}

\* the rule lists these documents are evaluated with: none or one rule
CrossRuleLists == {<<>>} \cup {<<r>> : r \in RulePool}

\* ------------------------------------------------------------- the state
VARIABLES
    text,        \* the argument of split_clauses
    pc,          \* where split_clauses stands
    normalized,  \* normalized, delimiter-injected text
    first,       \* first-pass pieces
    piece,       \* index into first of the piece the loop takes next
    chunks,      \* every value the loop variable chunk has taken, in order
    idx,         \* count of the clauses kept
    results,     \* the clauses returned
    rules,                    \* the rule list handed to run_evaluation
    file_found,               \* whether file_path can be opened
    epc,                      \* where run_evaluation stands
    clauses,                  \* clauses of run_evaluation
    clause_number,            \* the loop variable i of run_evaluation
    clause_level_results,
    cross_clause_data,
    document_level_results,
    error,                    \* the exception that ended run_evaluation, "" when none
    output,                   \* what was dumped to output_path, <<>> when nothing
    call,        \* the arguments of one handler call and the libraries' answers
    hpc,         \* where that call stands
    ret,         \* what the handler returned or raised
    history,     \* the calls of split_clauses that have returned: text and clauses
    rules_file,  \* what rules_detailed.json holds, or why it cannot be loaded
    output_dir,  \* whether the directory "output" exists
    screening    \* clause_screening.evaluate_clause: its argument, the module's
                 \* rules, its locals, what it returned or raised, and the
                 \* rules it has evaluated so far

\* the variables of split_clauses
svars == <<text, pc, normalized, first, piece, chunks, idx, results>>

\* the variables of run_evaluation
evars == <<rules, file_found, epc, clauses, clause_number, clause_level_results,
           cross_clause_data, document_level_results, error, output>>

\* the variables of one handler call
hvars == <<call, hpc, ret>>

\* the variables of what runs around the calls
ovars == <<history, rules_file, output_dir, screening>>

vars == <<svars, evars, hvars, ovars>>

\* nothing has run before
RunsIdle ==
    /\ history = <<>>
    /\ rules_file = <<>>
    /\ output_dir = FALSE
    /\ screening = <<>>

\* no handler is called on its own
HandlerIdle ==
    /\ call = <<>>
    /\ hpc = "idle"
    /\ ret = <<>>

\* run_evaluation has not been entered
EvalIdle ==
    /\ rules = <<>>
    /\ file_found = FALSE
    /\ epc = "idle"
    /\ clauses = <<>>
    /\ clause_number = 0
    /\ clause_level_results = <<>>
    /\ cross_clause_data = <<>>
    /\ document_level_results = <<>>
    /\ error = ""
    /\ output = <<>>

Init ==
    /\ text \in Docs
    /\ pc = "start"
    /\ normalized = <<>>
    /\ first = <<>>
    /\ piece = 0
    /\ chunks = <<>>
    /\ idx = 0
    /\ results = <<>>
    /\ EvalIdle
    /\ HandlerIdle
    /\ RunsIdle

\* the blank text handed back as a clause instead of no clause
SkipEmpty_ReturnsText ==
    /\ pc = "start"
    /\ IsBlank(text)
    /\ pc' = "done"
    /\ results' = <<text>>
    /\ UNCHANGED <<text, normalized, first, piece, chunks, idx>>
    /\ UNCHANGED <<evars, hvars, ovars>>

\* lines 97-99: nothing to split
SkipEmpty ==
    /\ pc = "start"
    /\ IsBlank(text)
    /\ pc' = "done"
    /\ results' = <<>>
    /\ UNCHANGED <<text, normalized, first, piece, chunks, idx>>
    /\ UNCHANGED <<evars, hvars, ovars>>

\* lines 102-104
Normalize ==
    /\ pc = "start"
    /\ ~IsBlank(text)
    /\ normalized' = inject_delims(Normalized(text))
    /\ pc' = "normalized"
    /\ UNCHANGED <<text, first, piece, chunks, idx, results>>
    /\ UNCHANGED <<evars, hvars, ovars>>

\* lines 107-112
SplitFirstPass ==
    /\ pc = "normalized"
    /\ first' = FirstPass(normalized)
    /\ piece' = 1
    /\ pc' = "loop"
    /\ UNCHANGED <<text, normalized, chunks, idx, results>>
    /\ UNCHANGED <<evars, hvars, ovars>>

\* lines 113-119: one round of "for piece in first", its inner loop included
ProcessPiece ==
    /\ pc = "loop"
    /\ piece <= Len(first)
    /\ LET cs == split_oversize(first[piece])
           kept == SelectSeq(cs, KeepChunk)
       IN  /\ chunks' = chunks \o cs
           /\ results' = results \o kept
           /\ idx' = idx + Len(kept)
    /\ piece' = piece + 1
    /\ UNCHANGED <<text, pc, normalized, first>>
    /\ UNCHANGED <<evars, hvars, ovars>>

\* lines 121-122
Return ==
    /\ pc = "loop"
    /\ piece > Len(first)
    /\ pc' = "done"
    /\ UNCHANGED <<text, normalized, first, piece, chunks, idx, results>>
    /\ UNCHANGED <<evars, hvars, ovars>>

Next == SkipEmpty \/ Normalize \/ SplitFirstPass \/ ProcessPiece \/ Return

Spec == Init /\ [][Next]_vars

TypeOK ==
    /\ pc \in {"start", "normalized", "loop", "done"}
    /\ idx = Len(results)

\* ------------------------------------------- split_clauses called again
\* Largest number of calls of split_clauses in a row.
MaxCalls == 3

WaiveText ==
    <<" ", "W", "e", " ", "w", "a", "i", "v", "e", " ">>

\* texts of every path through split_clauses: empty, blank, too short,
\* one clause, two paragraphs, a marker phrase inside, an oversize paragraph
CallDocs ==
    { <<>>,
      <<" ", "\n">>,
      PayText,
      Words(MIN_W),
      PayText \o <<" ">> \o Words(MIN_W) \o <<"\n", "\n">> \o Words(MIN_W),
      Words(MIN_W) \o WaiveText \o Words(MIN_W),
      Sent(MAX_W) \o <<" ">> \o Sent(MIN_W) }

\* the first call of split_clauses
InitCalls ==
    /\ text \in CallDocs
    /\ pc = "start"
    /\ normalized = <<>>
    /\ first = <<>>
    /\ piece = 0
    /\ chunks = <<>>
    /\ idx = 0
    /\ results = <<>>
    /\ EvalIdle
    /\ HandlerIdle
    /\ RunsIdle

\* the list of results lives on from call to call
CallAgain_KeepsResults ==
    /\ pc = "done"
    /\ Len(history) + 1 < MaxCalls
    /\ history' = Append(history, [text |-> text, results |-> results])
    /\ \E t \in CallDocs : text' = t
    /\ pc' = "start"
    /\ normalized' = <<>>
    /\ first' = <<>>
    /\ piece' = 0
    /\ chunks' = <<>>
    /\ idx' = Len(results)
    /\ UNCHANGED results
    /\ UNCHANGED <<evars, hvars, rules_file, output_dir, screening>>

\* the call has returned and split_clauses is called again: the module's
\* names (MARK_RE, HARD_RE, SENT_RE, MAX_W, MIN_W) are only read, and
\* results, normalized, first and idx are locals that every call makes anew
\* (lines 95, 102, 107, 112)
CallAgain ==
    /\ pc = "done"
    /\ Len(history) + 1 < MaxCalls
    /\ history' = Append(history, [text |-> text, results |-> results])
    /\ \E t \in CallDocs : text' = t
    /\ pc' = "start"
    /\ normalized' = <<>>
    /\ first' = <<>>
    /\ piece' = 0
    /\ chunks' = <<>>
    /\ idx' = 0
    /\ results' = <<>>
    /\ UNCHANGED <<evars, hvars, rules_file, output_dir, screening>>

NextCalls == SkipEmpty \/ Normalize \/ SplitFirstPass \/ ProcessPiece \/ Return \/ CallAgain

SpecCalls == InitCalls /\ [][NextCalls]_vars

\* ---------------------------------------------------------- run_evaluation
\* run_evaluation(file_path, rules, output_path) is entered; text is what
\* the file at file_path holds
InitEval ==
    /\ rules \in RuleLists
    /\ \/ file_found = TRUE /\ text \in EvalDocs
       \/ file_found = FALSE /\ text = <<>>
    /\ pc = "start"
    /\ normalized = <<>>
    /\ first = <<>>
    /\ piece = 0
    /\ chunks = <<>>
    /\ idx = 0
    /\ results = <<>>
    /\ epc = "run_evaluation"
    /\ clauses = <<>>
    /\ clause_number = 0
    /\ clause_level_results = <<>>
    /\ cross_clause_data = <<>>
    /\ document_level_results = <<>>
    /\ error = ""
    /\ output = <<>>
    /\ HandlerIdle
    /\ RunsIdle

\* lines 325-330: the file cannot be opened
ReadFails ==
    /\ epc = "run_evaluation"
    /\ ~file_found
    /\ epc' = "exit"
    /\ error' = "SystemExit: 1"
    /\ UNCHANGED <<rules, file_found, clauses, clause_number, clause_level_results,
                   cross_clause_data, document_level_results, output>>
    /\ UNCHANGED <<svars, hvars, ovars>>

\* lines 325-334: the file is read and split
ReadAndSplit ==
    /\ epc = "run_evaluation"
    /\ file_found
    /\ clauses' = split_clauses(text)
    /\ clause_number' = 1
    /\ epc' = "loop"
    /\ UNCHANGED <<rules, file_found, clause_level_results, cross_clause_data,
                   document_level_results, error, output>>
    /\ UNCHANGED <<svars, hvars, ovars>>

\* the clauses are numbered from 0, as enumerate does without a start
EvaluateNext_FromZero ==
    /\ epc = "loop"
    /\ clause_number <= Len(clauses)
    /\ \E os \in OracleSeqs(rules, 1) :
         LET clause_text == clauses[clause_number]
             evaluations == evaluate_clause(clause_text, rules, os)
         IN  IF evaluations.raised
             THEN /\ epc' = "raised"
                  /\ error' = evaluations.error
                  /\ UNCHANGED <<clause_number, clause_level_results, cross_clause_data>>
             ELSE /\ clause_level_results' =
                        Append(clause_level_results,
                               [ clause_number |-> clause_number - 1,
                                 clause_text   |-> clause_text,
                                 evaluations   |-> evaluations.clause_results ])
                  /\ cross_clause_data' =
                        Append(cross_clause_data, check_cross_clause_data(clause_text))
                  /\ clause_number' = clause_number + 1
                  /\ UNCHANGED <<epc, error>>
    /\ UNCHANGED <<rules, file_found, clauses, document_level_results, output>>
    /\ UNCHANGED <<svars, hvars, ovars>>

\* lines 336-342: one round of the loop over the clauses; an exception of
\* evaluate_clause is caught nowhere and ends run_evaluation
EvaluateNext ==
    /\ epc = "loop"
    /\ clause_number <= Len(clauses)
    /\ \E os \in OracleSeqs(rules, 1) :
         LET clause_text == clauses[clause_number]
             evaluations == evaluate_clause(clause_text, rules, os)
         IN  IF evaluations.raised
             THEN /\ epc' = "raised"
                  /\ error' = evaluations.error
                  /\ UNCHANGED <<clause_number, clause_level_results, cross_clause_data>>
             ELSE /\ clause_level_results' =
                        Append(clause_level_results,
                               [ clause_number |-> clause_number,
                                 clause_text   |-> clause_text,
                                 evaluations   |-> evaluations.clause_results ])
                  /\ cross_clause_data' =
                        Append(cross_clause_data, check_cross_clause_data(clause_text))
                  /\ clause_number' = clause_number + 1
                  /\ UNCHANGED <<epc, error>>
    /\ UNCHANGED <<rules, file_found, clauses, document_level_results, output>>
    /\ UNCHANGED <<svars, hvars, ovars>>

\* line 344
FinalCheck ==
    /\ epc = "loop"
    /\ clause_number > Len(clauses)
    /\ document_level_results' = perform_final_cross_clause_check(cross_clause_data)
    /\ epc' = "dump"
    /\ UNCHANGED <<rules, file_found, clauses, clause_number, clause_level_results,
                   cross_clause_data, error, output>>
    /\ UNCHANGED <<svars, hvars, ovars>>

\* lines 346-353
Dump ==
    /\ epc = "dump"
    /\ output' = << [ clause_level_evaluation   |-> clause_level_results,
                      document_level_evaluation |-> document_level_results ] >>
    /\ epc' = "done"
    /\ UNCHANGED <<rules, file_found, clauses, clause_number, clause_level_results,
                   cross_clause_data, document_level_results, error>>
    /\ UNCHANGED <<svars, hvars, ovars>>

NextEval == ReadFails \/ ReadAndSplit \/ EvaluateNext \/ FinalCheck \/ Dump

SpecEval == InitEval /\ [][NextEval]_vars

\* run_evaluation is entered with a document of CrossDocs
InitCross ==
    /\ rules \in CrossRuleLists
    /\ \/ file_found = TRUE /\ text \in CrossDocs
       \/ file_found = FALSE /\ text = <<>>
    /\ pc = "start"
    /\ normalized = <<>>
    /\ first = <<>>
    /\ piece = 0
    /\ chunks = <<>>
    /\ idx = 0
    /\ results = <<>>
    /\ epc = "run_evaluation"
    /\ clauses = <<>>
    /\ clause_number = 0
    /\ clause_level_results = <<>>
    /\ cross_clause_data = <<>>
    /\ document_level_results = <<>>
    /\ error = ""
    /\ output = <<>>
    /\ HandlerIdle
    /\ RunsIdle

SpecCross == InitCross /\ [][NextEval]_vars

\* -------------------------------------------------------------- main
\* what load_rules can find at rules_path: a rule list, no file, or a file
\* that is no JSON
RuleFiles ==
    {[state |-> "ok", rules |-> rs] : rs \in RuleLists}
    \cup {[state |-> "missing", rules |-> <<>>], [state |-> "malformed", rules |-> <<>>]}

\* main() is entered with a file_path argument, without
\* --generate-training-data
InitMain ==
    /\ rules_file \in RuleFiles
    /\ output_dir \in BOOLEAN
    /\ history = <<>>
    /\ screening = <<>>
    /\ rules = <<>>
    /\ \/ file_found = TRUE /\ text \in EvalDocs
       \/ file_found = FALSE /\ text = <<>>
    /\ pc = "start"
    /\ normalized = <<>>
    /\ first = <<>>
    /\ piece = 0
    /\ chunks = <<>>
    /\ idx = 0
    /\ results = <<>>
    /\ epc = "main"
    /\ clauses = <<>>
    /\ clause_number = 0
    /\ clause_level_results = <<>>
    /\ cross_clause_data = <<>>
    /\ document_level_results = <<>>
    /\ error = ""
    /\ output = <<>>
    /\ HandlerIdle

\* lines 358-375: the arguments are parsed and the output directory is made
MakeDirs ==
    /\ epc = "main"
    /\ output_dir' = TRUE
    /\ epc' = "load_rules"
    /\ UNCHANGED <<rules, file_found, clauses, clause_number, clause_level_results,
                   cross_clause_data, document_level_results, error, output>>
    /\ UNCHANGED <<svars, hvars, history, rules_file, screening>>

\* a rule file that cannot be loaded counts as an empty rule list
LoadRulesFails_NoRules ==
    /\ epc = "load_rules"
    /\ rules_file.state # "ok"
    /\ rules' = <<>>
    /\ epc' = "run_evaluation"
    /\ UNCHANGED <<file_found, clauses, clause_number, clause_level_results,
                   cross_clause_data, document_level_results, error, output>>
    /\ UNCHANGED <<svars, hvars, ovars>>

\* line 376, lines 243-246: open or json.load raises and nothing in main
\* catches it
LoadRulesFails ==
    /\ epc = "load_rules"
    /\ rules_file.state # "ok"
    /\ epc' = "raised"
    /\ error' = IF rules_file.state = "missing" THEN "FileNotFoundError"
                ELSE "JSONDecodeError"
    /\ UNCHANGED <<rules, file_found, clauses, clause_number, clause_level_results,
                   cross_clause_data, document_level_results, output>>
    /\ UNCHANGED <<svars, hvars, ovars>>

\* lines 376, 385-395: the rules are loaded and run_evaluation is called
LoadRules ==
    /\ epc = "load_rules"
    /\ rules_file.state = "ok"
    /\ rules' = rules_file.rules
    /\ epc' = "run_evaluation"
    /\ UNCHANGED <<file_found, clauses, clause_number, clause_level_results,
                   cross_clause_data, document_level_results, error, output>>
    /\ UNCHANGED <<svars, hvars, ovars>>

NextMain ==
    \/ MakeDirs
    \/ LoadRulesFails
    \/ LoadRules
    \/ ReadFails
    \/ ReadAndSplit
    \/ EvaluateNext
    \/ FinalCheck
    \/ Dump

SpecMain == InitMain /\ [][NextMain]_vars

\* the exit status of the interpreter: 1 after sys.exit(1) and after an
\* exception that nothing catches, 0 after main returns, none while it runs
ExitStatus ==
    CASE epc \in {"exit", "raised"} -> <<1>>
      [] epc = "done" -> <<0>>
      [] OTHER -> <<>>

\* ------------------------------------------------- one handler call
\* clause texts with no number, with numbers, and with percentages
Pay30Text ==
    <<"P", "a", "y", "m", "e", "n", "t", " ", "w", "i", "t", "h", "i", "n", " ", "3", "0", " ", "d", "a", "y", "s", " ", "o", "f", " ", "i", "n", "v", "o", "i", "c", "e", ".">>

PromptText ==
    <<"P", "a", "y", "m", "e", "n", "t", " ", "p", "r", "o", "m", "p", "t", "l", "y", " ", "u", "p", "o", "n", " ", "r", "e", "c", "e", "i", "p", "t", ".">>

Pay45Text ==
    <<"P", "a", "y", " ", "4", "5", " ", "d", "a", "y", "s", " ", "a", "f", "t", "e", "r", " ", "7", " ", "d", "a", "y", "s", " ", "n", "o", "t", "i", "c", "e", ".">>

Term5Text ==
    <<"T", "e", "r", "m", " ", "o", "f", " ", "5", " ", "y", "e", "a", "r", "s", ",", " ", "r", "e", "n", "e", "w", "a", "b", "l", "e", " ", "f", "o", "r", " ", "1", "0", " ", "y", "e", "a", "r", "s", ".">>

Term10Text ==
    <<"T", "e", "r", "m", " ", "o", "f", " ", "1", "0", " ", "y", "e", "a", "r", "s", ".">>

Perc12Text ==
    <<"P", "e", "n", "a", "l", "t", "y", " ", "o", "f", " ", "1", "2", " ", "%", " ", "p", "e", "r", " ", "y", "e", "a", "r", " ", "c", "a", "p", "p", "e", "d", " ", "a", "t", " ", "5", ".">>

Perc3Text ==
    <<"I", "n", "t", "e", "r", "e", "s", "t", " ", "3", "%", " ", "t", "h", "e", "n", " ", "2", "0", " ", "%", ".">>

Perc20Text ==
    <<"R", "a", "t", "e", " ", "o", "f", " ", "2", "0", "%", " ", "o", "v", "e", "r", " ", "7", " ", "y", "e", "a", "r", "s", ".">>

HandlerClauses ==
    {Pay30Text, PromptText, Pay45Text, Term5Text, Term10Text, Perc12Text, Perc3Text, Perc20Text}

\* a dict that holds key k with one of the values of S, or does not hold k
Opt(k, S) == {EmptyDict} \cup {k :> v : v \in S}

\* a rule of the rule file
Rule(id, type, patterns, thresholds) ==
    [ id |-> id, name |-> id, type |-> type, patterns |-> patterns, thresholds |-> thresholds ]

\* rules of every type of the dispatch table, with each pattern tier and
\* each threshold configured or left out
HandlerRules ==
    { Rule("F", "fuzzy", g @@ y @@ r, tg @@ ty) :
        g \in Opt("green", {<<"net 30">>}), y \in Opt("yellow", {<<"promptly">>}),
        r \in Opt("red", {<<"on demand">>}),
        tg \in Opt("green", {70, 85, 95}), ty \in Opt("yellow", {70, 80}) }
    \cup { Rule("D", "numeric_days", y, t) :
        y \in Opt("yellow", {<<>>, <<"promptly">>, <<"promptly", "soon">>}),
        t \in Opt("green_min_days", {30, 40}) }
    \cup { Rule("Y", "numeric_years", EmptyDict, t) : t \in Opt("green_max_years", {5, 9, 10}) }
    \cup { Rule("P", "numeric_percentage", EmptyDict, t) :
        t \in Opt("green_max_percent", {10, 12, 20}) }
    \cup { Rule("A", "numeric_amount", EmptyDict, t) : t \in Opt("amount_presence", {0, 1}) }
    \cup { Rule("I", "presence_inverse", r, EmptyDict) :
        r \in Opt("red", {<<>>, <<"on demand">>, <<"on demand", "penalty">>}) }
    \cup { Rule("G", "grammar_count", EmptyDict, EmptyDict) }
    \cup { Rule("O", type, g @@ r, tg @@ ty) :
        type \in {"ocr_confidence", "format"},
        g \in Opt("green", {<<"net 30">>}), r \in Opt("red", {<<"on demand">>}),
        tg \in Opt("green", {85}), ty \in Opt("min_confidence", {0, 90}) }

\* scores of the fuzzy scorer around every threshold a handler compares with
HandlerScores ==
    {0, 69, 70, 71, 74, 75, 76, 79, 80, 81, 84, 85, 86, 89, 90, 91, 94, 95, 96, 100}

\* issue counts of the grammar tool around the handler's limits
HandlerGrammarCounts == {0, 1, 2, 5, 6, 7}

\* the answers the libraries can give on a call for the rule
HandlerOraclesFor(rule) ==
    LET n == Len(ScorerChoices(rule))
    IN  [ score  : IF n > 0 THEN HandlerScores ELSE {0},
          pick   : IF n > 0 THEN 1..n ELSE {1},
          errors : IF Get(rule, "type", "None") = "grammar_count"
                   THEN HandlerGrammarCounts \cup {-1} ELSE {-1} ]

\* evaluate_clause is about to call the handler of a rule on a clause
InitHandler ==
    /\ \E clause_text \in HandlerClauses, rule \in HandlerRules :
          \E o \in HandlerOraclesFor(rule) :
             call = [clause_text |-> clause_text, rule |-> rule, o |-> o]
    /\ hpc = "called"
    /\ ret = <<>>
    /\ text = <<>>
    /\ pc = "start"
    /\ normalized = <<>>
    /\ first = <<>>
    /\ piece = 0
    /\ chunks = <<>>
    /\ idx = 0
    /\ results = <<>>
    /\ EvalIdle
    /\ RunsIdle

\* line 258: handler = DISPATCH[rule_type]
Handler == DISPATCH[call.rule["type"]]

\* line 259: the call ends, with a pair (color, evidence) or an exception
Ends(returned) ==
    /\ ret' = returned
    /\ hpc' = IF returned.raised THEN "raised" ELSE "returned"
    /\ UNCHANGED <<call, svars, evars, ovars>>

CheckFuzzy ==
    /\ hpc = "called"
    /\ Handler = "check_fuzzy"
    /\ Ends(check_fuzzy(call.clause_text, call.rule, call.o))

CheckNumeric ==
    /\ hpc = "called"
    /\ Handler = "check_numeric"
    /\ Ends(check_numeric(call.clause_text, call.rule, call.o))

CheckPresenceInverse ==
    /\ hpc = "called"
    /\ Handler = "check_presence_inverse"
    /\ Ends(check_presence_inverse(call.clause_text, call.rule, call.o))

CheckGrammarCount ==
    /\ hpc = "called"
    /\ Handler = "check_grammar_count"
    /\ Ends(check_grammar_count(call.clause_text, call.rule, call.o))

CheckNotImplemented ==
    /\ hpc = "called"
    /\ Handler = "check_not_implemented"
    /\ Ends(check_not_implemented(call.clause_text, call.rule, call.o))

NextHandler ==
    \/ CheckFuzzy
    \/ CheckNumeric
    \/ CheckPresenceInverse
    \/ CheckGrammarCount
    \/ CheckNotImplemented

SpecHandler == InitHandler /\ [][NextHandler]_vars

TypeOKEval ==
    /\ epc \in {"run_evaluation", "loop", "dump", "done", "raised", "exit"}
    /\ Len(clause_level_results) = Len(cross_clause_data)
    /\ epc = "loop" => Len(clause_level_results) = clause_number - 1

\* ======================================================== the splitter
\* the text is whitespace only (possibly empty)
Blank(t) == \A i \in 1..Len(t) : IsSpace(t[i])

\* index i of t is where a sentence boundary lies: whitespace after . ! or ?
BoundaryAt(t, i) == i > 1 /\ IsSentEnd(t[i - 1]) /\ IsSpace(t[i])

\* t is one sentence: it holds no sentence boundary
OneSentence(t) == \A i \in 1..Len(t) : ~BoundaryAt(t, i)

\* index i of t lies in a run of two or more newlines
InHardBreak(t, i) ==
    /\ t[i] = "\n"
    /\ \/ i > 1 /\ t[i - 1] = "\n"
       \/ i < Len(t) /\ t[i + 1] = "\n"

NoHardBreak(t) == \A i \in 1..Len(t) : ~InHardBreak(t, i)

\* the chunks of t with at least MIN_W words, in order
AtLeastMinW(cs) == SelectSeq(cs, LAMBDA c : WordCount(c) >= MIN_W)

\* C1: every clause returned has at least MIN_W words, and the clauses are
\* exactly the chunks of at least MIN_W words, unchanged and in order: a
\* shorter chunk is dropped, never padded or merged into a neighbour.
C1_MinWordsKept ==
    /\ \A k \in 1..Len(results) : WordCount(results[k]) >= MIN_W
    /\ pc = "done" => results = AtLeastMinW(chunks)

C1_Witness ==
    /\ pc = "done"
    /\ results # <<>>
    /\ \E k \in 1..Len(chunks) : WordCount(chunks[k]) < MIN_W

\* C2: no clause returned exceeds MAX_W words.
C2_NoClauseOverMax ==
    \A k \in 1..Len(results) : WordCount(results[k]) <= MAX_W

\* C3: every clause returned has between MIN_W and MAX_W words unless it is
\* one single sentence longer than MAX_W; a chunk of two or more sentences
\* never exceeds MAX_W.
C3_BoundsButSingleSentence ==
    /\ \A k \in 1..Len(results) :
          \/ MIN_W <= WordCount(results[k]) /\ WordCount(results[k]) <= MAX_W
          \/ OneSentence(results[k]) /\ WordCount(results[k]) > MAX_W
    /\ \A k \in 1..Len(chunks) :
          ~OneSentence(chunks[k]) => WordCount(chunks[k]) <= MAX_W

C3_Witness ==
    /\ pc = "done"
    /\ \E k \in 1..Len(results) : WordCount(results[k]) > MAX_W
    /\ \E k \in 1..Len(first) :
          /\ WordCount(first[k]) > MAX_W
          /\ \E g \in Range(split_oversize(first[k])) : ~OneSentence(g)

\* C4: a text that is empty or whitespace only gives no clause at all.
C4_BlankGivesNothing ==
    Blank(text) => /\ results = <<>>
                   /\ idx = 0
                   /\ pc \in {"start", "done"}

C4_Witness == pc = "done" /\ Blank(text) /\ Len(text) > 0

RECURSIVE PilcrowParts(_)
PilcrowParts(t) ==
    LET d == {i \in 1..Len(t) : t[i] = PILCROW}
    IN  IF d = {} THEN <<t>>
        ELSE <<SubSeq(t, 1, Min(d) - 1)>> \o PilcrowParts(SubSeq(t, Min(d) + 1, Len(t)))

MarkPhraseAt(t, i) == \E m \in 1..Len(MARK) : PhraseAt(t, i, MARK[m])

\* C6: when the one marker match of a text without hard break is a phrase
\* of MARK after some other text that begins with a word, the delimiter is put right before the
\* phrase and the first pass gives two pieces: the text before the phrase
\* and the rest, which begins with the phrase.
C6_SplitBeforePhrase ==
    LET n == Normalized(text)
        s == MarkStarts(n)
    IN  (/\ pc \in {"normalized", "loop", "done"}
         /\ ~Blank(text)
         /\ Len(s) = 1
         /\ s[1] > 1
         /\ ~IsSpace(n[1]) /\ n[1] # PILCROW
         /\ MarkPhraseAt(n, s[1])
         /\ NoHardBreak(n))
        => /\ normalized = SubSeq(n, 1, s[1] - 1) \o <<PILCROW>>
                              \o SubSeq(n, s[1], Len(n))
           /\ pc # "normalized"
                => /\ Len(first) = 2
                   /\ first[1] = strip(SubSeq(n, 1, s[1] - 1))
                   /\ MarkPhraseAt(first[2], 1)

\* the pieces of t cut only before the marker matches and at the hard breaks
CutAtMarksAndBreaks(t) ==
    LET marks  == Range(MarkStarts(t))
        stop(i) == InHardBreak(t, i) \/ i \in marks
        starts == {i \in 1..Len(t) :
                      /\ ~InHardBreak(t, i)
                      /\ (i = 1 \/ InHardBreak(t, i - 1) \/ i \in marks)}
        last(i) == Min({k \in (i + 1)..Len(t) : stop(k)} \cup {Len(t) + 1}) - 1
        ord    == Sorted(starts)
    IN  StripNonEmpty([k \in 1..Len(ord) |-> SubSeq(t, ord[k], last(ord[k]))])

\* C7: wherever the first pass gives two or more pieces, they are the
\* normalized text cut before the marker matches and at the runs of two or
\* more newlines, and nowhere else.
C7_SplitOnlyAtMarksAndBreaks ==
    (pc \in {"loop", "done"} /\ Len(first) >= 2)
        => first = CutAtMarksAndBreaks(Normalized(text))

\* the sentences of the groups, one after the other
RECURSIVE GroupSentences(_)
GroupSentences(gs) ==
    IF gs = <<>> THEN <<>> ELSE Sentences(Head(gs)) \o GroupSentences(Tail(gs))

\* C8: for a piece of more than MAX_W words the groups of split_oversize
\* hold the sentences of the piece, each once and in order, and a group is
\* followed by another only if the first sentence of that one would have
\* brought it over MAX_W words.
C8_GreedyInOrder ==
    \A k \in 1..Len(first) :
        WordCount(first[k]) > MAX_W =>
            LET gs == split_oversize(first[k])
            IN  /\ GroupSentences(gs) = Sentences(first[k])
                /\ \A g \in 1..(Len(gs) - 1) :
                      WordCount(gs[g]) + WordCount(Sentences(gs[g + 1])[1]) > MAX_W

C8_Witness ==
    /\ pc = "done"
    /\ \E k \in 1..Len(first) :
          /\ WordCount(first[k]) > MAX_W
          /\ Len(split_oversize(first[k])) >= 2
          /\ \E g \in Range(split_oversize(first[k])) :
                Len(Sentences(g)) >= 2 /\ WordCount(g) = MAX_W

\* ======================================================= the evaluator
\* the rules of a list whose type is a key of the dispatch table, in order
Dispatched(rs) ==
    SelectSeq(rs, LAMBDA r : "type" \in DOMAIN r /\ r["type"] \in DOMAIN DISPATCH)

\* how many times run_evaluation has called evaluate_clause: clause k is
\* the argument of call k
EvaluateCalls ==
    CASE epc = "raised" -> clause_number
      [] epc \in {"loop", "dump", "done"} -> clause_number - 1
      [] OTHER -> 0

\* C9: every call of evaluate_clause returns a list with exactly one record
\* per rule whose type is in the dispatch table, in rule-list order, each
\* with its rule's id and name, and with no record for any other rule.
C9_OneRecordPerDispatchedRule ==
    \A k \in 1..EvaluateCalls :
        /\ k <= Len(clause_level_results)
        /\ LET evaluations == clause_level_results[k].evaluations
               expected == Dispatched(rules)
           IN  /\ Len(evaluations) = Len(expected)
               /\ \A j \in 1..Len(expected) :
                     /\ evaluations[j].rule_id = expected[j]["id"]
                     /\ evaluations[j].rule_name = expected[j]["name"]

\* the handler of the rule lacks what it needs to judge a clause: a fuzzy or
\* inverse-presence rule without a pattern to match, a numeric_days or
\* numeric_percentage rule without its threshold
CannotEvaluate(rule) ==
    LET rule_type == Get(rule, "type", "None")
        thresholds == Get(rule, "thresholds", EmptyDict)
    IN  \/ rule_type \in {"fuzzy", "presence_inverse"} /\ ScorerChoices(rule) = <<>>
        \/ rule_type = "numeric_days" /\ "green_min_days" \notin DOMAIN thresholds
        \/ rule_type = "numeric_percentage" /\ "green_max_percent" \notin DOMAIN thresholds

\* C10: no exception of a handler ends the document evaluation, and the
\* record of a rule whose handler cannot evaluate it has the verdict N/A.
C10_HandlerFailuresIsolated ==
    /\ epc # "raised"
    /\ \A k \in 1..Len(clause_level_results) :
          LET evaluations == clause_level_results[k].evaluations
              expected == Dispatched(rules)
          IN  \A j \in 1..Len(evaluations) :
                 (j <= Len(expected) /\ CannotEvaluate(expected[j]))
                     => evaluations[j].score = "N/A"

\* ================================================ the cross-clause check
\* the distinct values of one field (amounts, currencies, contract_nos) that
\* check_cross_clause_data finds in the clauses of the document
Aggregated(field) ==
    UNION {Range(check_cross_clause_data(clauses[k])[field]) : k \in 1..Len(clauses)}

CrossFields == {"amounts", "currencies", "contract_nos"}

\* the evaluation has run the cross-clause check
CrossChecked == epc \in {"dump", "done"}

\* C11: a document evaluation emits exactly one cross-clause record, however
\* many clauses the document has; its verdict is RED exactly when at least
\* one of the three sets aggregated over all clauses (amounts, currencies,
\* contract numbers) holds more than one distinct value, and GREEN otherwise.
C11_OneCrossRecord ==
    /\ Len(document_level_results) <= 1
    /\ CrossChecked =>
          /\ Len(document_level_results) = 1
          /\ document_level_results[1].rule_name = "Cross-Clause Consistency"
          /\ document_level_results[1].color \in {"RED", "GREEN"}
          /\ document_level_results[1].color = "RED"
                <=> \E f \in CrossFields : Cardinality(Aggregated(f)) > 1
    /\ epc = "done" =>
          /\ Len(output) = 1
          /\ output[1].document_level_evaluation = document_level_results

\* a written report of a document of MaxParas clauses whose verdict is RED
C11_Witness ==
    /\ epc = "done"
    /\ Len(clauses) = MaxParas
    /\ Len(output[1].document_level_evaluation) = 1
    /\ output[1].document_level_evaluation[1].color = "RED"

\* a written report of a document of several clauses whose verdict is GREEN
\* although the clauses state values
C11_WitnessGreen ==
    /\ epc = "done"
    /\ Len(clauses) = MaxParas
    /\ output[1].document_level_evaluation[1].color = "GREEN"
    /\ \E f \in CrossFields : Cardinality(Aggregated(f)) = 1

\* the part of the evidence that reports a field
CrossMessage ==
    [ amounts      |-> "Inconsistent amounts found: {list}",
      currencies   |-> " Inconsistent currencies found: {list}",
      contract_nos |-> " Inconsistent contract numbers found: {list}" ]

\* C12: when the cross-clause verdict is RED, the evidence lists every
\* aggregated set that has more than one distinct value, with all of its
\* distinct values (two clauses holding only the amounts "100.00" and
\* "200.00" give RED with both values named); when the verdict is GREEN the
\* evidence is exactly "All values are consistent across clauses."
C12_EvidenceListsOffendingSets ==
    CrossChecked =>
        LET record == document_level_results[1]
        IN  /\ record.color = "RED" =>
                 \A f \in CrossFields :
                    Cardinality(Aggregated(f)) > 1 =>
                       \E j \in 1..Len(record.evidence) :
                          /\ record.evidence[j].msg = CrossMessage[f]
                          /\ record.evidence[j].values = Aggregated(f)
            /\ record.color = "GREEN" =>
                 record.evidence =
                    << [ msg    |-> "All values are consistent across clauses.",
                         values |-> {} ] >>
            /\ ( /\ Aggregated("amounts") = {<<"1", "0", "0", ".", "0", "0">>,
                                             <<"2", "0", "0", ".", "0", "0">>}
                 /\ Aggregated("currencies") = {}
                 /\ Aggregated("contract_nos") = {} )
                  => /\ record.color = "RED"
                     /\ record.evidence =
                           << [ msg    |-> CrossMessage["amounts"],
                                values |-> Aggregated("amounts") ] >>

\* the report of two clauses that hold only the amounts 100.00 and 200.00
C12_Witness ==
    /\ epc = "done"
    /\ Len(clauses) = 2
    /\ Aggregated("amounts") = {<<"1", "0", "0", ".", "0", "0">>,
                                <<"2", "0", "0", ".", "0", "0">>}
    /\ Aggregated("currencies") = {}
    /\ Aggregated("contract_nos") = {}
    /\ output[1].document_level_evaluation[1].color = "RED"

\* ======================================================= the scenarios
\* the evaluated file exists and is empty
EmptyDocument == file_found /\ text = <<>>

\* C13 (scenario A): evaluating an empty document with any rule list gives
\* an empty clause-level list and a document-level list of exactly one
\* record, "Cross-Clause Consistency", GREEN, with the evidence
\* "All values are consistent across clauses."
C13_EmptyDocument ==
    EmptyDocument =>
        /\ epc \notin {"raised", "exit"}
        /\ clause_level_results = <<>>
        /\ CrossChecked =>
              document_level_results =
                 << [ rule_name |-> "Cross-Clause Consistency",
                      color     |-> "GREEN",
                      evidence  |-> << [ msg    |-> "All values are consistent across clauses.",
                                         values |-> {} ] >> ] >>
        /\ epc = "done" =>
              output = << [ clause_level_evaluation   |-> <<>>,
                            document_level_evaluation |-> document_level_results ] >>

\* the report of an empty document evaluated with a full rule list
C13_Witness ==
    /\ EmptyDocument
    /\ epc = "done"
    /\ Len(rules) = MaxRules
    /\ Len(output) = 1

\* ========================================================= the handlers
\* the handler call has ended, and it was a call for a rule of that type
Ended(type) == hpc \in {"returned", "raised"} /\ call.rule["type"] = type

\* the patterns of a tier of the called rule, none when the tier is not configured
Tier(tier) == IF tier \in DOMAIN call.rule["patterns"] THEN call.rule["patterns"][tier] ELSE <<>>

\* the threshold of the called rule, or the value used when it is not configured
Threshold(key, default) ==
    IF key \in DOMAIN call.rule["thresholds"] THEN call.rule["thresholds"][key] ELSE default

\* C14: check_fuzzy pools the green, yellow and red patterns of the rule and
\* decides from the best score alone, whichever tier the best pattern is of:
\* GREEN if the score is >= the green threshold (default 90), else YELLOW if
\* it is >= the yellow threshold (default 75), else RED; a rule with no
\* pattern in any tier gets N/A.
C14_FuzzyVerdict ==
    Ended("fuzzy") =>
        LET pool == Tier("green") \o Tier("yellow") \o Tier("red")
            score == call.o.score
        IN  /\ hpc = "returned"
            /\ pool = <<>> => ret.color = "N/A"
            /\ pool # <<>> =>
                  /\ ret.evidence.txt = pool[call.o.pick]
                  /\ ret.color =
                        CASE score >= Threshold("green", 90) -> "GREEN"
                          [] score < Threshold("green", 90)
                             /\ score >= Threshold("yellow", 75) -> "YELLOW"
                          [] OTHER -> "RED"

\* a call whose best pattern is a red one and whose score, equal to the
\* default green threshold, gives GREEN
C14_Witness ==
    /\ Ended("fuzzy")
    /\ hpc = "returned"
    /\ Tier("green") # <<>>
    /\ Tier("red") # <<>>
    /\ ret.evidence.txt \in Range(Tier("red"))
    /\ "green" \notin DOMAIN call.rule["thresholds"]
    /\ call.o.score = 90
    /\ ret.color = "GREEN"

\* green thresholds a rule can be rewritten with
GreenThresholds == 0..101

\* the called rule with its green threshold set to g
WithGreen(g) == [call.rule EXCEPT !["thresholds"] = ("green" :> g) @@ @]

\* C15: for a fixed best score and a fixed yellow threshold, raising the
\* green threshold of a fuzzy rule never turns a YELLOW or RED verdict into
\* GREEN: the verdict stays, or moves from GREEN to YELLOW or RED.
C15_GreenThresholdMonotone ==
    (Ended("fuzzy") /\ hpc = "returned" /\ ret.color # "N/A") =>
        \A g \in GreenThresholds :
            g > Threshold("green", 90) =>
                LET raised == check_fuzzy(call.clause_text, WithGreen(g), call.o)
                IN  /\ ~raised.raised
                    /\ raised.color = "GREEN" => ret.color = "GREEN"
                    /\ ret.color # "GREEN" => raised.color = ret.color
                    /\ raised.color \in {"GREEN", "YELLOW", "RED"}

\* a GREEN verdict that a higher green threshold moves to YELLOW and a
\* still higher one keeps there
C15_Witness ==
    /\ Ended("fuzzy")
    /\ hpc = "returned"
    /\ ret.color = "GREEN"
    /\ \E g \in GreenThresholds :
          /\ g > Threshold("green", 90)
          /\ check_fuzzy(call.clause_text, WithGreen(g), call.o).color = "YELLOW"
          /\ check_fuzzy(call.clause_text, WithGreen(g + 1), call.o).color = "YELLOW"

\* the integers of the clause of the call
CallNums == Range(Nums(call.clause_text))

\* C16: for every clause and every numeric_days rule the handler returns a
\* verdict: GREEN if any integer of the clause is >= the configured
\* min-days threshold ("Payment within 30 days of invoice." with
\* green_min_days 30 gives GREEN, the evidence citing 30); otherwise YELLOW
\* if a configured yellow pattern matches with a score > 80; otherwise RED.
C16_NumericDaysVerdict ==
    Ended("numeric_days") =>
        LET configured == "green_min_days" \in DOMAIN call.rule["thresholds"]
            enough == /\ configured
                      /\ \E n \in CallNums : n >= call.rule["thresholds"]["green_min_days"]
            vague == Tier("yellow") # <<>> /\ call.o.score > 80
        IN  /\ hpc = "returned"
            /\ ret.color = CASE enough -> "GREEN"
                             [] ~enough /\ vague -> "YELLOW"
                             [] OTHER -> "RED"
            /\ (call.clause_text = Pay30Text /\ configured
                /\ call.rule["thresholds"]["green_min_days"] = 30)
                  => ret.color = "GREEN" /\ ret.evidence.nums = <<30>>

\* the same for the rules that configure the threshold and whose yellow
\* tier, when configured, holds a pattern
C16_ConfiguredRules ==
    ( /\ Ended("numeric_days")
      /\ "green_min_days" \in DOMAIN call.rule["thresholds"]
      /\ ("yellow" \in DOMAIN call.rule["patterns"] => Tier("yellow") # <<>>) )
        => C16_NumericDaysVerdict

\* C17: numeric_years gives N/A if the clause holds no integer; GREEN if any
\* integer of the clause is <= the max-years threshold (6 when the rule
\* configures none); otherwise RED, the evidence reporting the first integer
\* of the clause, which then exceeds the threshold.
C17_NumericYearsVerdict ==
    Ended("numeric_years") =>
        LET nums == Nums(call.clause_text)
            max_years == Threshold("green_max_years", 6)
        IN  /\ hpc = "returned"
            /\ nums = <<>> => ret.color = "N/A"
            /\ (nums # <<>> /\ \E n \in CallNums : n <= max_years) => ret.color = "GREEN"
            /\ (nums # <<>> /\ \A n \in CallNums : n > max_years) =>
                  /\ ret.color = "RED"
                  /\ ret.evidence.nums = <<max_years, nums[1]>>
                  /\ nums[1] > max_years

\* a RED verdict under the default threshold for a clause of two integers,
\* the first of them reported
C17_Witness ==
    /\ Ended("numeric_years")
    /\ hpc = "returned"
    /\ "green_max_years" \notin DOMAIN call.rule["thresholds"]
    /\ Len(Nums(call.clause_text)) = 2
    /\ ret.color = "RED"
    /\ ret.evidence.nums = <<6, Nums(call.clause_text)[1]>>

\* C18: for every clause and every numeric_percentage rule the verdict is
\* N/A if the clause holds no number followed by %; GREEN if any such number
\* is <= the max-percent threshold; otherwise RED.  Numbers that no % follows
\* have no influence on the verdict.
C18_NumericPercentageVerdict ==
    Ended("numeric_percentage") =>
        LET perc_nums == Range(PercNums(call.clause_text))
            within == /\ "green_max_percent" \in DOMAIN call.rule["thresholds"]
                      /\ \E p \in perc_nums : p <= call.rule["thresholds"]["green_max_percent"]
        IN  /\ hpc = "returned"
            /\ ret.color = CASE perc_nums = {} -> "N/A"
                             [] perc_nums # {} /\ within -> "GREEN"
                             [] OTHER -> "RED"

\* the same for the rules that configure the threshold
C18_ConfiguredRules ==
    (Ended("numeric_percentage") /\ "green_max_percent" \in DOMAIN call.rule["thresholds"])
        => C18_NumericPercentageVerdict

\* a RED verdict for a clause whose percentage exceeds the threshold while
\* another of its numbers, with no % after it, does not
C18_PlainNumberIgnored ==
    /\ Ended("numeric_percentage")
    /\ hpc = "returned"
    /\ ret.color = "RED"
    /\ \E n \in CallNums : n <= call.rule["thresholds"]["green_max_percent"]

\* C19: presence_inverse gives N/A if the rule has no red patterns; otherwise
\* RED exactly when the best score of the clause against the red patterns is
\* strictly greater than 90 (a score of exactly 90 gives GREEN), and GREEN in
\* every other case.
C19_PresenceInverseVerdict ==
    Ended("presence_inverse") =>
        /\ hpc = "returned"
        /\ Tier("red") = <<>> => ret.color = "N/A"
        /\ Tier("red") # <<>> =>
              /\ ret.color \in {"RED", "GREEN"}
              /\ ret.color = "RED" <=> call.o.score > 90
              /\ call.o.score = 90 => ret.color = "GREEN"

\* a GREEN verdict at a best score of exactly 90
C19_Witness ==
    /\ Ended("presence_inverse")
    /\ hpc = "returned"
    /\ Tier("red") # <<>>
    /\ call.o.score = 90
    /\ ret.color = "GREEN"

\* C20: grammar_count gives GREEN at 0 issues, YELLOW at 1 to 5 issues and
\* RED above 5; a failure of the grammar tool, when it is built or when it
\* checks, gives N/A with the error message as evidence and never leaves
\* the handler as an exception.
C20_GrammarCountVerdict ==
    Ended("grammar_count") =>
        LET error_count == call.o.errors
        IN  /\ hpc = "returned"
            /\ ~ret.raised
            /\ error_count < 0 =>
                  /\ ret.color = "N/A"
                  /\ ret.evidence.msg = "Grammar check failed: {e}"
            /\ error_count = 0 => ret.color = "GREEN"
            /\ error_count \in 1..5 => ret.color = "YELLOW"
            /\ error_count > 5 => ret.color = "RED"
            /\ error_count >= 0 => ret.evidence.nums = <<error_count>>

\* a call during which the grammar tool failed, answered with N/A
C20_Witness ==
    /\ Ended("grammar_count")
    /\ call.o.errors < 0
    /\ hpc = "returned"
    /\ ret.color = "N/A"

\* a call with five issues, answered with YELLOW
C20_WitnessFive ==
    /\ Ended("grammar_count")
    /\ call.o.errors = 5
    /\ ret.color = "YELLOW"

\* C21: a rule of type format or ocr_confidence always yields a record with
\* the verdict N/A, whatever the clause text and the configuration of the
\* rule: the record is emitted, and its verdict is never GREEN, YELLOW or RED.
C21_PlaceholdersNotApplicable ==
    (Ended("format") \/ Ended("ocr_confidence")) =>
        LET evaluations == evaluate_clause(call.clause_text, <<call.rule>>, <<call.o>>)
        IN  /\ hpc = "returned"
            /\ ret.color = "N/A"
            /\ ~evaluations.raised
            /\ Len(evaluations.clause_results) = 1
            /\ evaluations.clause_results[1].rule_id = call.rule["id"]
            /\ evaluations.clause_results[1].score = "N/A"

\* a call for a format rule that configures patterns and thresholds, on a
\* clause that holds a number
C21_Witness ==
    /\ Ended("format")
    /\ hpc = "returned"
    /\ DOMAIN call.rule["patterns"] = {"green", "red"}
    /\ DOMAIN call.rule["thresholds"] = {"green", "min_confidence"}
    /\ CallNums # {}
    /\ ret.color = "N/A"

\* ================================================= calls in a row
\* the calls of split_clauses that have returned, the running one included
\* once it has returned
Returned ==
    IF pc = "done" THEN Append(history, [text |-> text, results |-> results])
    ELSE history

\* C22: split_clauses is deterministic and keeps no hidden state: two calls
\* on the same text, whatever calls lie between them, return the same
\* sequence of clauses.
C22_SameTextSameClauses ==
    \A a, b \in 1..Len(Returned) :
        Returned[a].text = Returned[b].text => Returned[a].results = Returned[b].results

\* the same text split a first and a last time, with a call on another text,
\* one that gives clauses, in between
C22_Witness ==
    /\ Len(Returned) = MaxCalls
    /\ Returned[1].text = Returned[MaxCalls].text
    /\ Len(Returned[1].results) = 2
    /\ \E b \in 2..(MaxCalls - 1) :
          /\ Returned[b].text # Returned[1].text
          /\ Returned[b].results # <<>>

\* ================================================== the entry point
\* the document has been read, or a read of it has been tried
DocumentRead ==
    \/ epc \in {"loop", "dump", "done", "exit"}
    \/ clauses # <<>>
    \/ clause_level_results # <<>>
    \/ document_level_results # <<>>
    \/ output # <<>>

\* C23: the entry point loads the rule set before it reads, splits or
\* evaluates the document; when loading fails, the rule file missing or
\* malformed, the run ends with a non-zero exit status, no clause is
\* processed and no evaluation output is written.
C23_ConfigurationErrorFatal ==
    /\ DocumentRead => (rules_file.state = "ok" /\ rules = rules_file.rules)
    /\ rules_file.state # "ok" =>
          /\ epc \in {"main", "load_rules", "raised"}
          /\ ~DocumentRead
          /\ ExitStatus \in {<<>>, <<1>>}
          /\ epc = "raised" =>
                /\ ExitStatus = <<1>>
                /\ error \in {"FileNotFoundError", "JSONDecodeError"}

\* a run on an existing document of two paragraphs that ended because the
\* rule file is malformed
C23_Witness ==
    /\ rules_file.state = "malformed"
    /\ file_found
    /\ Len(split_clauses(text)) = MaxParas
    /\ epc = "raised"
    /\ ExitStatus = <<1>>
    /\ output = <<>>

\* ================================================ order and numbering
\* C24: clause order and numbering are preserved through evaluation: the
\* clause-level list of run_evaluation has exactly one entry per clause that
\* split_clauses returns, in the splitter's order, with clause_number
\* 1, 2, ..., n and clause_text equal to the splitter's clause.  While the
\* loop runs the list is the beginning of that list.
C24_OrderAndNumbering ==
    epc \in {"loop", "raised", "dump", "done"} =>
        LET split == split_clauses(text)
        IN  /\ Len(clause_level_results) <= Len(split)
            /\ \A k \in 1..Len(clause_level_results) :
                  /\ clause_level_results[k].clause_number = k
                  /\ clause_level_results[k].clause_text = split[k]
            /\ epc \in {"dump", "done"} => Len(clause_level_results) = Len(split)
            /\ epc = "done" => output[1].clause_level_evaluation = clause_level_results

\* the report of a document of MaxParas different clauses, evaluated with
\* MaxRules rules
C24_Witness ==
    /\ epc = "done"
    /\ Len(rules) = MaxRules
    /\ Len(output[1].clause_level_evaluation) = MaxParas
    /\ output[1].clause_level_evaluation[1].clause_text
          # output[1].clause_level_evaluation[MaxParas].clause_text
    /\ output[1].clause_level_evaluation[MaxParas].clause_number = MaxParas

\* ============================================ the legacy screening mode
\* clause_screening.py keeps its own rule format: a fuzzy rule holds the
\* three pattern tiers and both thresholds, a numeric rule holds "max"
MaxScreenRules == 3

ScreenRulePool ==
    { [ id |-> "F", type |-> "fuzzy",
        patterns |-> [green |-> <<"net 30">>, yellow |-> <<"promptly">>, red |-> <<"on demand">>],
        thresholds |-> [green |-> 85, yellow |-> 70] ],
      [ id |-> "G", type |-> "fuzzy",
        patterns |-> [green |-> <<"net 30">>], thresholds |-> [green |-> 85, yellow |-> 70] ],
      [ id |-> "N", type |-> "numeric", max |-> 6 ],
      [ id |-> "M", type |-> "numeric", max |-> 30 ],
      [ id |-> "D", type |-> "numeric_days", patterns |-> EmptyDict,
        thresholds |-> ("green_min_days" :> 30) ] }

\* the module's rules: up to MaxScreenRules rules, no rule twice, in any order
ScreenRuleLists ==
    UNION {{rs \in [1..n -> ScreenRulePool] : \A a, b \in 1..n : a # b => rs[a] # rs[b]}
           : n \in 0..MaxScreenRules}

\* clauses without a number, with a first number above and with one below "max"
ScreenClauses == {PromptText, Pay30Text, Term5Text}

\* scores of process.extractOne on both sides of the two thresholds
ScreenScores == {69, 70, 84, 85}

\* the first key that fuzzy_colour indexes and the rule does not hold
MissingKey(rule) ==
    IF "patterns" \notin DOMAIN rule THEN <<"patterns">>
    ELSE IF "green" \notin DOMAIN rule["patterns"] THEN <<"green">>
    ELSE IF "yellow" \notin DOMAIN rule["patterns"] THEN <<"yellow">>
    ELSE IF "red" \notin DOMAIN rule["patterns"] THEN <<"red">>
    ELSE IF "thresholds" \notin DOMAIN rule THEN <<"thresholds">>
    ELSE IF "green" \notin DOMAIN rule["thresholds"] THEN <<"green">>
    ELSE <<>>

\* the patterns fuzzy_colour hands to process.extractOne
ScreenChoices(rule) ==
    IF rule["type"] = "fuzzy" /\ MissingKey(rule) = <<>>
    THEN rule["patterns"]["green"] \o rule["patterns"]["yellow"] \o rule["patterns"]["red"]
    ELSE <<>>

\* the answers process.extractOne can give on the call for the rule
ScreenOraclesFor(rule) ==
    LET n == Len(ScreenChoices(rule))
    IN  [ score : IF n > 0 THEN ScreenScores ELSE {0}, pick : IF n > 0 THEN 1..n ELSE {1} ]

\* what one statement of the loop body leaves behind: the exception it
\* raised, if any, and the locals colour and ev, each <<>> while unbound
Bound(colour, ev) == [error |-> <<>>, colour |-> <<colour>>, ev |-> <<ev>>]

Fails(exception, colour, ev) == [error |-> <<exception>>, colour |-> colour, ev |-> ev]

\* fuzzy_colour: three-way colour from the best score; the caller passes
\* the lower-cased clause to the scorer
fuzzy_colour(rule, o, colour, ev) ==
    IF MissingKey(rule) # <<>> THEN Fails("KeyError", colour, ev)
    ELSE IF ScreenChoices(rule) = <<>> THEN Fails("TypeError", colour, ev)
    ELSE LET match == ScreenChoices(rule)[o.pick]
         IN  IF o.score >= rule["thresholds"]["green"]
             THEN Bound("GREEN", Evidence("matched '{match}' ({score})", <<o.score>>, match))
             ELSE IF "yellow" \notin DOMAIN rule["thresholds"] THEN Fails("KeyError", colour, ev)
             ELSE IF o.score >= rule["thresholds"]["yellow"]
             THEN Bound("YELLOW", Evidence("matched '{match}' ({score})", <<o.score>>, match))
             ELSE Bound("RED", Evidence("best score {score}", <<o.score>>, ""))

\* the numeric branch: the first number of the clause against rule["max"];
\* colour is assigned before the f-string of ev is
numeric_colour(clause_text, rule, colour, ev) ==
    LET nums == Nums(clause_text)
    IN  IF nums = <<>> THEN Bound("RED", Evidence("found {nums}", nums, ""))
        ELSE IF "max" \notin DOMAIN rule THEN Fails("KeyError", colour, ev)
        ELSE Bound(IF nums[1] <= rule["max"] THEN "GREEN" ELSE "YELLOW",
                   Evidence("found {nums}", nums, ""))

\* lines 82-88: the types the if / elif of the loop body assigns colour and ev for
Assigns(rule) == rule["type"] \in {"fuzzy", "numeric"}

\* lines 82-88 of the loop body for one rule
ScreenBody(clause_text, rule, o, colour, ev) ==
    IF "type" \notin DOMAIN rule THEN Fails("KeyError", colour, ev)
    ELSE IF ~Assigns(rule) THEN [error |-> <<>>, colour |-> colour, ev |-> ev]
    ELSE IF rule["type"] = "fuzzy" THEN fuzzy_colour(rule, o, colour, ev)
    ELSE numeric_colour(clause_text, rule, colour, ev)

\* screen_clauses is about to call evaluate_clause on a clause; the rules
\* are the module's, loaded when the module was
InitScreen ==
    /\ \E clause_text \in ScreenClauses, rs \in ScreenRuleLists :
          screening = [ clause_text |-> clause_text, rules |-> rs, rule_index |-> 1,
                        colour |-> <<>>, ev |-> <<>>, pc |-> "loop",
                        returned |-> <<>>, error |-> <<>>, evaluated |-> <<>> ]
    /\ text = <<>> /\ pc = "start" /\ normalized = <<>> /\ first = <<>> /\ piece = 0
    /\ chunks = <<>> /\ idx = 0 /\ results = <<>>
    /\ EvalIdle
    /\ HandlerIdle
    /\ history = <<>> /\ rules_file = <<>> /\ output_dir = FALSE

\* line 90: stop at the first colour that is not GREEN
Stops(colour) == colour # "GREEN"

\* one round of the loop of evaluate_clause, lines 81-92
ScreenRule ==
    /\ screening # <<>>
    /\ screening.pc = "loop" /\ screening.rule_index <= Len(screening.rules)
    /\ LET rule == screening.rules[screening.rule_index]
       IN  \E o \in ScreenOraclesFor(rule) :
             LET body == ScreenBody(screening.clause_text, rule, o, screening.colour, screening.ev)
                 seen == IF body.error = <<>> /\ Assigns(rule)
                         THEN Append(screening.evaluated,
                                     [rule_index |-> screening.rule_index,
                                      colour |-> body.colour[1], ev |-> body.ev[1]])
                         ELSE screening.evaluated
                 locals == [screening EXCEPT !.colour = body.colour, !.ev = body.ev,
                                             !.evaluated = seen]
             IN  screening' =
                   IF body.error # <<>>
                   THEN [locals EXCEPT !.pc = "raised", !.error = body.error]
                   ELSE IF body.colour = <<>>
                   THEN [locals EXCEPT !.pc = "raised", !.error = <<"UnboundLocalError">>]
                   ELSE IF Stops(body.colour[1])
                   THEN [locals EXCEPT !.pc = "returned",
                                       !.returned = <<[colour |-> body.colour[1],
                                                       rule_id |-> <<rule["id"]>>,
                                                       ev |-> body.ev[1]]>>]
                   ELSE [locals EXCEPT !.rule_index = @ + 1]
    /\ UNCHANGED <<svars, evars, hvars, history, rules_file, output_dir>>

\* line 93: the loop ran out of rules
ScreenAllGreen ==
    /\ screening # <<>>
    /\ screening.pc = "loop" /\ screening.rule_index > Len(screening.rules)
    /\ screening' = [screening EXCEPT !.pc = "returned",
                        !.returned = <<[colour |-> "GREEN", rule_id |-> <<>>,
                                        ev |-> Evidence("all checks passed", <<>>, "")]>>]
    /\ UNCHANGED <<svars, evars, hvars, history, rules_file, output_dir>>

NextScreen == ScreenRule \/ ScreenAllGreen

SpecScreen == InitScreen /\ [][NextScreen]_vars

\* the rule evaluated last
LastEvaluated == screening.evaluated[Len(screening.evaluated)]

\* the rules evaluated are the rules of a type the mode has a branch for,
\* from the first of the list to rule n, each once and in list order
EvaluatedUpTo(n) ==
    LET handled == {k \in 1..n : Assigns(screening.rules[k])}
    IN  /\ Len(screening.evaluated) = Cardinality(handled)
        /\ {screening.evaluated[j].rule_index : j \in 1..Len(screening.evaluated)} = handled
        /\ \A a, b \in 1..Len(screening.evaluated) :
              a < b => screening.evaluated[a].rule_index < screening.evaluated[b].rule_index

\* C25: the legacy screening mode applies the rules in list order and
\* short-circuits: for every rule list, evaluate_clause returns the verdict,
\* id and evidence of the first rule in list order whose verdict is not GREEN,
\* evaluates no rule after it, and returns GREEN with rule id None exactly
\* when every rule's verdict is GREEN.
C25_ScreeningShortCircuit ==
    screening # <<>> =>
        /\ screening.pc # "raised"
        /\ screening.pc = "returned" =>
              LET r == screening.returned[1]
              IN  /\ \A j \in 1..Len(screening.evaluated) :
                        screening.evaluated[j].colour # "GREEN" => j = Len(screening.evaluated)
                  /\ r.rule_id = <<>> <=>
                        \A j \in 1..Len(screening.evaluated) :
                           screening.evaluated[j].colour = "GREEN"
                  /\ r.rule_id = <<>> =>
                        r.colour = "GREEN" /\ EvaluatedUpTo(Len(screening.rules))
                  /\ r.rule_id # <<>> =>
                        /\ EvaluatedUpTo(LastEvaluated.rule_index)
                        /\ r = [colour |-> LastEvaluated.colour,
                                rule_id |-> <<screening.rules[LastEvaluated.rule_index]["id"]>>,
                                ev |-> LastEvaluated.ev]

\* the rule list holds only rules in the format of the legacy mode
ScreenableRules ==
    \A k \in 1..Len(screening.rules) :
       /\ Assigns(screening.rules[k])
       /\ screening.rules[k]["type"] = "fuzzy" =>
             MissingKey(screening.rules[k]) = <<>>
             /\ "yellow" \in DOMAIN screening.rules[k]["thresholds"]

\* with rules in the legacy format the call returns as C25 says
C25_ScreenableRules ==
    (screening # <<>> /\ ScreenableRules) => C25_ScreeningShortCircuit

\* a list of MaxScreenRules rules: the first GREEN, the second not, the
\* third never evaluated
C25_Witness ==
    /\ screening # <<>>
    /\ ScreenableRules
    /\ Len(screening.rules) = MaxScreenRules
    /\ screening.pc = "returned"
    /\ Len(screening.evaluated) = 2
    /\ screening.returned[1].rule_id = <<screening.rules[2]["id"]>>
    /\ screening.returned[1].colour = "YELLOW"

\* ================================================== documents in a row
\* run_evaluation called again and again by one process with the rule list
\* that load_rules returned once: documents of one clause and of two
RowDocs ==
    { <<"\n", "\n">> \o Fee100Text \o <<" ">> \o Words(MIN_W),
      <<"\n", "\n">> \o Fee200Text \o <<" ">> \o Words(MIN_W),
      <<"\n", "\n">> \o Contract1Text \o <<" ">> \o Words(MIN_W)
         \o <<"\n", "\n">> \o Fee100Text \o <<" ">> \o Words(MIN_W) }

InitRow ==
    /\ rules \in CrossRuleLists
    /\ \/ file_found = TRUE /\ text \in RowDocs
       \/ file_found = FALSE /\ text = <<>>
    /\ pc = "start"
    /\ normalized = <<>>
    /\ first = <<>>
    /\ piece = 0
    /\ chunks = <<>>
    /\ idx = 0
    /\ results = <<>>
    /\ epc = "run_evaluation"
    /\ clauses = <<>>
    /\ clause_number = 0
    /\ clause_level_results = <<>>
    /\ cross_clause_data = <<>>
    /\ document_level_results = <<>>
    /\ error = ""
    /\ output = <<>>
    /\ HandlerIdle
    /\ RunsIdle

\* the call that ended, as the caller saw it
EndedRun ==
    [ text |-> text, file_found |-> file_found, rules |-> rules, epc |-> epc,
      error |-> error, output |-> output ]

\* the next call finds the facts the call before collected
EvaluateAgain_KeepsFacts ==
    /\ epc \in {"done", "exit", "raised"}
    /\ Len(history) + 1 < MaxCalls
    /\ history' = Append(history, EndedRun)
    /\ \/ file_found' = TRUE /\ text' \in RowDocs
       \/ file_found' = FALSE /\ text' = <<>>
    /\ epc' = "run_evaluation"
    /\ clauses' = <<>>
    /\ clause_number' = 0
    /\ clause_level_results' = <<>>
    /\ document_level_results' = <<>>
    /\ error' = ""
    /\ output' = <<>>
    /\ UNCHANGED <<rules, cross_clause_data>>
    /\ UNCHANGED <<pc, normalized, first, piece, chunks, idx, results>>
    /\ UNCHANGED <<hvars, rules_file, output_dir, screening>>

\* run_evaluation has ended, with its report written, on sys.exit or on an
\* exception, and the caller calls it on another document with the same
\* rules object: clause_level_results and cross_clause_data are made anew
\* (lines 333-334), clauses and document_level_results are assigned before
\* they are read (lines 332, 344), the report goes to the output path of
\* the new document, and no handler assigns to the rules it is given
EvaluateAgain ==
    /\ epc \in {"done", "exit", "raised"}
    /\ Len(history) + 1 < MaxCalls
    /\ history' = Append(history, EndedRun)
    /\ \/ file_found' = TRUE /\ text' \in RowDocs
       \/ file_found' = FALSE /\ text' = <<>>
    /\ epc' = "run_evaluation"
    /\ clauses' = <<>>
    /\ clause_number' = 0
    /\ clause_level_results' = <<>>
    /\ cross_clause_data' = <<>>
    /\ document_level_results' = <<>>
    /\ error' = ""
    /\ output' = <<>>
    /\ UNCHANGED rules
    /\ UNCHANGED <<pc, normalized, first, piece, chunks, idx, results>>
    /\ UNCHANGED <<hvars, rules_file, output_dir, screening>>

NextRow == ReadFails \/ ReadAndSplit \/ EvaluateNext \/ FinalCheck \/ Dump \/ EvaluateAgain

SpecRow == InitRow /\ [][NextRow]_vars

\* the reports run_evaluation can write for a document when it is the first
\* one evaluated: one record per clause of the splitter with what
\* evaluate_clause returns for some answers of the libraries, and the
\* cross-clause record of the facts of these clauses
FreshReport(report, t, rs) ==
    LET split == split_clauses(t)
    IN  /\ Len(report.clause_level_evaluation) = Len(split)
        /\ \A k \in 1..Len(split) :
              \E os \in OracleSeqs(rs, 1) :
                 LET evaluations == evaluate_clause(split[k], rs, os)
                 IN  /\ ~evaluations.raised
                     /\ report.clause_level_evaluation[k] =
                           [ clause_number |-> k, clause_text |-> split[k],
                             evaluations |-> evaluations.clause_results ]
        /\ report.document_level_evaluation =
              perform_final_cross_clause_check(
                 [k \in 1..Len(split) |-> check_cross_clause_data(split[k])])

\* C26: evaluation never changes the rule set and carries no state from one
\* document to the next: after every call of run_evaluation the rules are
\* what they were before the first call, and the report of a document is a
\* report that the same document gets when it is the first one evaluated
\* with these rules, whatever was evaluated before it.
C26_NoCarriedState ==
    /\ \A k \in 1..Len(history) : history[k].rules = rules
    /\ epc = "done" => FreshReport(output[1], text, rules)
    /\ \A k \in 1..Len(history) :
          history[k].epc = "done" =>
             FreshReport(history[k].output[1], history[k].text, history[k].rules)

\* a document that states one fee, evaluated with a rule after a document
\* that states another fee
C26_Witness ==
    /\ Len(history) = MaxCalls - 1
    /\ history[Len(history)].epc = "done"
    /\ history[Len(history)].text = <<"\n", "\n">> \o Fee100Text \o <<" ">> \o Words(MIN_W)
    /\ text = <<"\n", "\n">> \o Fee200Text \o <<" ">> \o Words(MIN_W)
    /\ rules # <<>>
    /\ epc = "done"
    /\ output[1].document_level_evaluation[1].color = "GREEN"

\* ======================================================= training mode
\* run_calibration_on_directory removes the output file and then runs
\* evaluate_file.py --generate-training-data once per document, every run
\* on the same output path.  output is the file at that path: <<>> while
\* there is none, else the one JSON list it holds.
TrainRulePool ==
    { [ id |-> "T1", name |-> "Net payment", type |-> "fuzzy",
        patterns |-> [green |-> <<"net 30">>, yellow |-> <<"promptly">>, red |-> <<"on demand">>],
        thresholds |-> EmptyDict ],
      [ id |-> "T2", name |-> "Penalties", type |-> "fuzzy",
        patterns |-> [red |-> <<"penalty", "on demand">>], thresholds |-> EmptyDict ],
      [ id |-> "R2", name |-> "Payment period", type |-> "numeric_days",
        patterns |-> [yellow |-> <<"promptly">>], thresholds |-> EmptyDict ] }

\* up to MaxRules rules of the pool, no rule twice, in any order
TrainRuleLists ==
    UNION {{rs \in [1..n -> TrainRulePool] : \A a, b \in 1..n : a # b => rs[a] # rs[b]}
           : n \in 0..MaxRules}

\* documents of no clause, of one clause and of two
TrainDocs ==
    { <<>>,
      <<"\n", "\n">> \o PayText \o <<" ">> \o Words(MIN_W),
      <<"\n", "\n">> \o PayText \o <<" ">> \o Words(MIN_W) \o <<"\n", "\n">> \o Words(MIN_W) }

TrainPatterns == {"net 30", "promptly", "on demand", "penalty"}

\* fuzz.partial_ratio is a function of the clause and the pattern; the
\* tables it can be: one score for all, or a score of its own for each
\* pattern and clause
TrainScoreTables ==
    { [k \in 1..2, p \in TrainPatterns |-> 40],
      [k \in 1..2, p \in TrainPatterns |->
          (CASE p = "net 30" -> 100 [] p = "promptly" -> 75 [] p = "on demand" -> 50
             [] OTHER -> 25) + k] }

InitTrain ==
    /\ rules \in TrainRuleLists
    /\ \/ file_found = TRUE /\ text \in TrainDocs
       \/ file_found = FALSE /\ text = <<>>
    /\ pc = "start"
    /\ normalized = <<>>
    /\ first = <<>>
    /\ piece = 0
    /\ chunks = <<>>
    /\ idx = 0
    /\ results = <<>>
    /\ epc = "generate_training_data"
    /\ clauses = <<>>
    /\ clause_number = 0
    /\ clause_level_results = <<>>
    /\ cross_clause_data = <<>>
    /\ document_level_results = <<>>
    /\ error = ""
    /\ output = <<>>
    /\ HandlerIdle
    /\ RunsIdle

\* every run starts from an empty list
Existing_Fresh(file) == <<>>

\* lines 279-283: all_scores as loaded from the output file, [] without one
Existing(file) == IF file = <<>> THEN <<>> ELSE file[1]

\* the label follows the tier only for green patterns
Label_GreenOnly(tier) == tier = "green"

\* lines 299-310: green and yellow patterns are good matches, red ones bad
Label(tier) == tier \in {"green", "yellow"}

\* the entries of one tier of a rule for the clause
TierEntries(k, rule, tier, o) ==
    LET ps == Get(Get(rule, "patterns", EmptyDict), tier, <<>>)
    IN  [j \in 1..Len(ps) |->
            [rule_id |-> rule["id"], score |-> o[k, ps[j]], label |-> Label(tier)]]

\* lines 296-310: what one rule appends for the clause
RuleEntries(k, rule, o) ==
    IF Get(rule, "type", "None") = "fuzzy"
    THEN TierEntries(k, rule, "green", o) \o TierEntries(k, rule, "yellow", o)
         \o TierEntries(k, rule, "red", o)
    ELSE <<>>

\* lines 294-310: what the loops append for the clauses
NewEntries(n, rs, o) ==
    Flatten([k \in 1..n |-> Flatten([r \in 1..Len(rs) |-> RuleEntries(k, rs[r], o)])])

\* lines 285-290: the document cannot be opened; nothing is written
TrainReadFails ==
    /\ epc = "generate_training_data"
    /\ ~file_found
    /\ epc' = "exit"
    /\ error' = "SystemExit: 1"
    /\ UNCHANGED <<rules, file_found, clauses, clause_number, clause_level_results,
                   cross_clause_data, document_level_results, output>>
    /\ UNCHANGED <<svars, hvars, ovars>>

\* lines 279-316: load, read, split, score, write back
Train ==
    /\ epc = "generate_training_data"
    /\ file_found
    /\ clauses' = split_clauses(text)
    /\ \E o \in TrainScoreTables :
          output' = << Existing(output) \o NewEntries(Len(clauses'), rules, o) >>
    /\ epc' = "done"
    /\ UNCHANGED <<rules, file_found, clause_number, clause_level_results,
                   cross_clause_data, document_level_results, error>>
    /\ UNCHANGED <<svars, hvars, ovars>>

\* the run that ended, and the output file as it left it
EndedTraining ==
    [ text |-> text, file_found |-> file_found, rules |-> rules, epc |-> epc,
      output |-> output ]

\* run_calibration_on_directory, lines 17-43: the next document, same
\* rule file, same output path, whether the run before failed or not
TrainAgain ==
    /\ epc \in {"done", "exit"}
    /\ Len(history) + 1 < MaxCalls
    /\ history' = Append(history, EndedTraining)
    /\ \/ file_found' = TRUE /\ text' \in TrainDocs
       \/ file_found' = FALSE /\ text' = <<>>
    /\ epc' = "generate_training_data"
    /\ clauses' = <<>>
    /\ error' = ""
    /\ UNCHANGED <<rules, output, clause_number, clause_level_results, cross_clause_data,
                   document_level_results>>
    /\ UNCHANGED <<pc, normalized, first, piece, chunks, idx, results>>
    /\ UNCHANGED <<hvars, rules_file, output_dir, screening>>

NextTrain == TrainReadFails \/ Train \/ TrainAgain

SpecTrain == InitTrain /\ [][NextTrain]_vars

\* the runs so far, the one under way last
TrainingRuns == Append(history, EndedTraining)

\* the entries of the output file before run k
EntriesBefore(k) == IF k = 1 THEN <<>> ELSE Existing(TrainingRuns[k - 1].output)

\* the (rule id, label) pairs a clause gets: for each rule of type fuzzy in
\* list order, its green and yellow patterns with True, then its red
\* patterns with False
RECURSIVE Slots(_)
Slots(rs) ==
    IF rs = <<>> THEN <<>>
    ELSE LET rule == Head(rs)
             count(tier) == Len(Get(rule["patterns"], tier, <<>>))
         IN  (IF rule["type"] = "fuzzy"
              THEN [j \in 1..(count("green") + count("yellow") + count("red")) |->
                      [rule_id |-> rule["id"], label |-> j <= count("green") + count("yellow")]]
              ELSE <<>>)
             \o Slots(Tail(rs))

\* C27: generate_training_data is append-only over runs on one output path:
\* after each run the output holds the entries that were there before,
\* unchanged and in the same order, followed by the new entries, one
\* [rule_id, score, label] per clause, fuzzy rule and pattern, with label
\* True for green and yellow patterns and False for red ones; rules of
\* another type add nothing, and a run that cannot read its document
\* leaves the output as it was.
C27_TrainingAppendOnly ==
    \A k \in 1..Len(TrainingRuns) :
       LET run == TrainingRuns[k]
           before == EntriesBefore(k)
           after == Existing(run.output)
           slots == Slots(run.rules)
           n == Len(split_clauses(run.text))
       IN  /\ run.epc \in {"generate_training_data", "exit"} =>
                run.output = (IF k = 1 THEN <<>> ELSE TrainingRuns[k - 1].output)
           /\ run.epc = "done" =>
                /\ run.output # <<>>
                /\ Len(after) = Len(before) + n * Len(slots)
                /\ \A j \in 1..Len(before) : after[j] = before[j]
                /\ \A c \in 1..n, m \in 1..Len(slots) :
                      LET entry == after[Len(before) + (c - 1) * Len(slots) + m]
                      IN  /\ entry.rule_id = slots[m].rule_id
                          /\ entry.label = slots[m].label
                          /\ \E r \in 1..Len(run.rules) :
                                /\ run.rules[r]["id"] = entry.rule_id
                                /\ run.rules[r]["type"] = "fuzzy"

\* the last of MaxCalls runs has added entries of both labels for two
\* clauses behind the entries that an earlier run left
C27_Witness ==
    /\ Len(TrainingRuns) = MaxCalls
    /\ epc = "done"
    /\ Len(clauses) = 2
    /\ Len(EntriesBefore(MaxCalls)) > 0
    /\ Len(output[1]) > Len(EntriesBefore(MaxCalls))
    /\ output[1][Len(output[1])].label = FALSE
    /\ output[1][Len(EntriesBefore(MaxCalls)) + 1].label = TRUE
    /\ \E r \in 1..Len(rules) : rules[r]["type"] # "fuzzy"

\* ==================================== the evidence of a RED cross record
\* C28: the evidence of a cross-clause record with verdict RED never
\* contains the GREEN message "All values are consistent across clauses.",
\* whichever of the three sets are the inconsistent ones.
C28_RedWithoutGreenMessage ==
    CrossChecked =>
        LET record == document_level_results[1]
        IN  record.color = "RED" =>
               \A j \in 1..Len(record.evidence) :
                  record.evidence[j].msg # "All values are consistent across clauses."

\* when the amounts are among the inconsistent sets, the evidence of the RED
\* record starts with their message and holds no GREEN message
C28_AmountsInconsistent ==
    (CrossChecked /\ Cardinality(Aggregated("amounts")) > 1) => C28_RedWithoutGreenMessage

\* a RED record of a document whose amounts are inconsistent
C28_WitnessAmounts ==
    /\ CrossChecked
    /\ Cardinality(Aggregated("amounts")) > 1
    /\ document_level_results[1].color = "RED"

\* ============================== the cross-clause verdict and the clauses
\* a clause that states a third fee
Fee300Text ==
    <<"F", "e", "e", " ", "3", "0", "0", ".", "0", "0">>

\* the facts of the clauses a document could go on with
FurtherFacts ==
    {check_cross_clause_data(p) : p \in CrossParas}
    \cup {check_cross_clause_data(Fee300Text \o <<" ">> \o Words(MIN_W))}

\* the verdict of the cross-clause check on the facts of a clause sequence
CrossVerdict(all_clause_data) == perform_final_cross_clause_check(all_clause_data)[1].color

\* the orders a sequence of n clauses can come in
Orders(n) == {f \in [1..n -> 1..n] : \A a, b \in 1..n : a # b => f[a] # f[b]}

\* C29: the cross-clause verdict is monotone in the clause sequence and
\* does not depend on the order of the clauses: when the check is RED for
\* the clauses collected so far, it is RED for these clauses followed by
\* any further clause, and it gives the same verdict for these clauses in
\* any other order.
C29_CrossVerdictMonotone ==
    epc \in {"loop", "dump", "done"} =>
        /\ \A d \in FurtherFacts :
              CrossVerdict(cross_clause_data) = "RED"
                 => CrossVerdict(Append(cross_clause_data, d)) = "RED"
        /\ \A k \in 0..Len(cross_clause_data) :
              CrossVerdict(SubSeq(cross_clause_data, 1, k)) = "RED"
                 => CrossVerdict(cross_clause_data) = "RED"
        /\ \A f \in Orders(Len(cross_clause_data)) :
              CrossVerdict([k \in 1..Len(cross_clause_data) |-> cross_clause_data[f[k]]])
                 = CrossVerdict(cross_clause_data)
        /\ CrossChecked => document_level_results[1].color = CrossVerdict(cross_clause_data)

\* the check has come out RED for MaxParas clauses that state different facts
C29_Witness ==
    /\ CrossChecked
    /\ Len(cross_clause_data) = MaxParas
    /\ cross_clause_data[1] # cross_clause_data[MaxParas]
    /\ document_level_results[1].color = "RED"
    /\ Cardinality(Aggregated("amounts")) = 2

\* ============================================== what the split removes
\* the characters of a text that are not whitespace, in order
NotSpace(c) == ~IsSpace(c)

NonSpace(t) == SelectSeq(t, NotSpace)

\* the chunks made so far and the pieces still to be cut, one after the other
ChunksAndRest ==
    Flatten(chunks)
    \o (IF piece = 0 THEN <<>>
        ELSE Flatten([k \in 1..(Len(first) + 1 - piece) |-> first[piece + k - 1]]))

\* C30: splitting loses no text before the MIN_W filter: the chunks that
\* the first-pass split followed by split_oversize produces, joined in
\* order, hold every non-whitespace character of the normalized text
\* exactly once and in the original order; only whitespace and the
\* injected delimiters are removed, and text is dropped from the result
\* only as whole chunks of fewer than MIN_W words.
C30_NoTextLost ==
    pc \in {"loop", "done"} =>
        /\ NonSpace(ChunksAndRest) = NonSpace(Normalized(text))
        /\ results = SelectSeq(chunks, KeepChunk)
        /\ \A k \in 1..Len(chunks) :
              chunks[k] \notin Range(results) => WordCount(chunks[k]) < MIN_W

\* the text holds no pilcrow of its own
NoPilcrowInText == PILCROW \notin Range(text)

\* without a pilcrow in the text nothing but whitespace and the injected
\* delimiters is removed
C30_PilcrowFreeText == NoPilcrowInText => C30_NoTextLost

\* a split that made several chunks, dropped one of them whole and kept another
C30_Witness ==
    /\ pc = "done"
    /\ NoPilcrowInText
    /\ Len(chunks) >= 2
    /\ Len(results) >= 1
    /\ Len(results) < Len(chunks)

====
